---- MODULE Spec2Model ----
(***************************************************************************)
(* Model of prometheus-radiator-exporter.                                  *)
(*                                                                         *)
(* Part 1 (specifications Spec, SpecStable): the protocol client of        *)
(* src/src/radiator.rs: the Reader Task (message_processor), the login     *)
(* handshake (connect_to_radiator) and the Request Coordinator             *)
(* (communicate / communicate_inner), run by concurrent callers against a  *)
(* backend that answers commands, emits LOG notifications and may drop the *)
(* connection.                                                             *)
(***************************************************************************)
EXTENDS Integers, Sequences, FiniteSets, TLC

(* ------------------------------------------------------------------ *)
(* Bounds of the model                                                 *)
(* ------------------------------------------------------------------ *)
NumCallers == 2
MaxCalls == 2
MaxConn == 2
MaxLog == 1

Callers == 1..NumCallers
ConnIds == 1..MaxConn

(* ------------------------------------------------------------------ *)
(* Bytes and frames                                                    *)
(* ------------------------------------------------------------------ *)
NUL == "NUL"
LOGGEDIN == <<"L", "O", "G", "G", "E", "D", "I", "N">>
BADLOGIN == <<"B", "A", "D", "L", "O", "G", "I", "N">>
LOG_PREFIX == <<"L", "O", "G", " ">>
LogText == <<"L", "O", "G", " ", "x">>
NoOrigin == <<0, 0, 0>>

StartsWith(buf, prefix) ==
    /\ Len(buf) >= Len(prefix)
    /\ SubSeq(buf, 1, Len(prefix)) = prefix

Last(buf) == buf[Len(buf)]
Pop(buf) == SubSeq(buf, 1, Len(buf) - 1)

(* the command a caller sends in its k-th call *)
CommandOf(i, k) ==
    IF (i + k) % 2 = 0 THEN <<"S", "T", "A", "T", "S", " ", ".">>
                       ELSE <<"D", "E", "S", "C", "R", "I", "B", "E", " ", "P", ".", "0">>

(* write_command: the command followed by one NUL *)
TerminatedCommand(command) == command \o <<NUL>>

(* what the backend sends back for a command it received: the echoed
   command, a newline and a payload, NUL-terminated *)
ResponseTo(terminated) == Pop(terminated) \o <<"\n", "k", ":", "1">> \o <<NUL>>


(* ------------------------------------------------------------------ *)
(* State                                                               *)
(* ------------------------------------------------------------------ *)
VARIABLES
    lock,            \* SOCKET_STATE mutex: 0 (free) or the caller holding it
    socket_writer,   \* SocketState.socket_writer: the connection of the installed write-half
    new_socket,      \* handoff channel: read-halves sent, not yet taken by the Reader Task
    messages,        \* delivery channel: frames sent by the Reader Task, not yet received
    socket_gone,     \* SOCKET_GONE
    reader,          \* Reader Task: [state, socket]
    conns,           \* the TCP connections: [state, inbox, stream]
    nconn,           \* connections opened so far
    nlog,            \* LOG notifications emitted so far
    pc,              \* per caller: position in communicate / communicate_inner
    calls,           \* per caller: communicate calls started
    attempt,         \* per caller: the attempt (iteration of the loop in communicate)
    result,          \* per caller: what the last finished communicate call returned
    outcomes,        \* history: per caller, the results of the attempts of the current call
    ops,             \* history: per caller, the writes and reconnects of the current attempt
    retried,         \* history: per caller, the retried write of the current call, if any
    lastLogin,       \* history: the last login reply read and what connect made of it
    readLog,         \* history: the complete frames the Reader Task has read
    recvLog          \* history: the frames received from the delivery channel

(* one scrape: the locals of handle_request *)
VARIABLES
    config,                     \* CONFIG
    request_method,             \* history: request.method() of the request handled
    spc,                        \* position in handle_request
    statistics,                 \* the decoded global statistics
    kindIx,                     \* position in config.per_object_metrics (from 1)
    index,                      \* i, the index the enumeration is at
    index_to_identifier,        \* of the kind being queried
    pending,                    \* indices of index_to_identifier not yet iterated
    index_to_statistics,        \* of the kind being queried
    object_type_to_statistics,  \* kind -> index -> PerObjectStats
    reply,                   \* the HTTP response returned, if any
    answers,                    \* history: the commands passed to communicate and how each ended
    described,                  \* history: the DESCRIBE calls of the kind being queried that returned Ok
    stats_log                   \* history: the per-object STATS calls, and what was known at each

(* a registry on its own: a MetricDatabase under a sequence of calls *)
VARIABLES
    registry,                   \* the MetricDatabase, and whether a call has panicked
    first_labels,               \* history: per metric, its label names when its first sample was recorded
    last_call,                  \* history: the last call, its arguments and the registry before it
    registry_calls,             \* calls made so far
    insert_order,               \* history: the metric names in the order of their insertion
    sample_order,               \* history: per metric, the sample keys in the order of their insertion
    written,                    \* history: what each call of write produced, and from what
    last_added                  \* history: per metric and label map, the value of the last add_sample that returned

(* the functions on their own: check at startup, decode_stats on a frame *)
VARIABLES
    check_result,               \* what check returned for config, "none" before it ran
    stats_entries,              \* the entries the backend put into the payload of the frame
    stats_response,             \* the frame handed to decode_stats
    stats_decoded               \* what decode_stats returned for it, if it ran

radiatorVars == <<lock, socket_writer, new_socket, messages, socket_gone, reader, conns,
                  nconn, nlog, pc, calls, attempt, result, outcomes, ops, retried,
                  lastLogin, readLog, recvLog>>
scrapeVars == <<config, request_method, spc, statistics, kindIx, index, index_to_identifier, pending,
                index_to_statistics, object_type_to_statistics, reply, answers,
                described, stats_log>>
registryVars == <<registry, first_labels, last_call, registry_calls, insert_order, sample_order,
                  written, last_added>>
functionVars == <<check_result, stats_entries, stats_response, stats_decoded>>
unitVars == <<scrapeVars, registryVars, functionVars>>
vars == <<radiatorVars, scrapeVars, registryVars, functionVars>>

NoFrame == [bytes |-> <<>>, origin |-> NoOrigin, conn |-> 0]
NoResult == [kind |-> "none", frame |-> NoFrame]
NoConn == [state |-> "none", inbox |-> <<>>, stream |-> <<>>]
UpConn == [state |-> "up", inbox |-> <<>>, stream |-> <<>>]
NoRetried == [origin |-> NoOrigin, conn |-> 0]
NoLogin == [buf |-> <<>>, outcome |-> "none", installed |-> 0, handed |-> FALSE, by |-> 0]

(* main: start_message_processor, then the initial connect_to_radiator has
   succeeded (otherwise the process has exited) and SOCKET_STATE is set *)
RadiatorStarted ==
    /\ lock = 0
    /\ socket_writer = 1
    /\ new_socket = <<1>>
    /\ messages = <<>>
    /\ socket_gone = FALSE
    /\ reader = [state |-> "waiting", socket |-> 0]
    /\ conns = [c \in ConnIds |-> IF c = 1 THEN UpConn ELSE NoConn]
    /\ nconn = 1
    /\ nlog = 0
    /\ pc = [i \in Callers |-> "idle"]
    /\ calls = [i \in Callers |-> 0]
    /\ attempt = [i \in Callers |-> 0]
    /\ result = [i \in Callers |-> NoResult]
    /\ outcomes = [i \in Callers |-> <<>>]
    /\ ops = [i \in Callers |-> <<>>]
    /\ retried = [i \in Callers |-> NoRetried]
    /\ lastLogin = NoLogin
    /\ readLog = <<>>
    /\ recvLog = <<>>

(* HashMap / BTreeMap as a function *)
EmptyMap == [k \in {} |-> 0]

(* no request has arrived *)
NoDocument == [some |-> FALSE, metrics |-> EmptyMap]
NoResponse == [status |-> 0, content_type |-> "", allow |-> "", text |-> "",
               document |-> NoDocument]
ScrapeIdle ==
    /\ spc = "idle"
    /\ request_method = "none"
    /\ statistics = EmptyMap
    /\ kindIx = 0
    /\ index = 0
    /\ index_to_identifier = EmptyMap
    /\ pending = {}
    /\ index_to_statistics = EmptyMap
    /\ object_type_to_statistics = EmptyMap
    /\ reply = NoResponse
    /\ answers = <<>>
    /\ described = <<>>
    /\ stats_log = <<>>

(* MetricDatabase::new *)
NewDatabase == [fault |-> FALSE, metrics |-> EmptyMap]

(* no call has been made on the registry *)
NoCall == [op |-> "none", name |-> <<>>, labels |-> EmptyMap, names_before |-> {},
           samples_before |-> EmptyMap, changed |-> FALSE]
RegistryIdle ==
    /\ registry = NewDatabase
    /\ first_labels = EmptyMap
    /\ last_call = NoCall
    /\ registry_calls = 0
    /\ insert_order = <<>>
    /\ sample_order = EmptyMap
    /\ written = <<>>
    /\ last_added = EmptyMap

(* neither function has run *)
NotDecoded == [ran |-> FALSE, some |-> FALSE, stats |-> EmptyMap]
FunctionsIdle ==
    /\ check_result = "none"
    /\ stats_entries = <<>>
    /\ stats_response = <<>>
    /\ stats_decoded = NotDecoded

(* a configuration without metrics *)
ConfigNoMetrics ==
    [username |-> <<"a">>, password |-> <<"b">>, metrics |-> <<>>,
     per_object_metrics |-> <<>>]

Init ==
    /\ RadiatorStarted
    /\ ScrapeIdle
    /\ RegistryIdle
    /\ FunctionsIdle
    /\ config = ConfigNoMetrics

(* ------------------------------------------------------------------ *)
(* Reader Task: message_processor                                      *)
(* ------------------------------------------------------------------ *)

(* buf.starts_with(b"LOG ") *)
IsLogFrame(buf) == StartsWith(buf, LOG_PREFIX)

(* the delivery channel after the Reader Task handled one complete frame *)
DeliverAlways(channel, frame) == Append(channel, frame)
Deliver(channel, frame) ==
    IF IsLogFrame(frame.bytes) THEN channel ELSE Append(channel, frame)

(* new_socket_receiver.recv() returned a read-half *)
ReaderObtain ==
    /\ reader.state = "waiting"
    /\ new_socket # <<>>
    /\ reader' = [state |-> "reading", socket |-> Head(new_socket)]
    /\ new_socket' = Tail(new_socket)
    /\ UNCHANGED <<unitVars, lock, socket_writer, messages, socket_gone, conns, nconn, nlog,
                   pc, calls, attempt, result, outcomes, ops, retried, lastLogin,
                   readLog, recvLog>>

(* read_until returned a NUL-terminated frame *)
ReaderRead ==
    /\ reader.state = "reading"
    /\ conns[reader.socket].stream # <<>>
    /\ LET chunk == Head(conns[reader.socket].stream)
           frame == [bytes |-> Pop(chunk.bytes), origin |-> chunk.origin, conn |-> chunk.conn]
       IN /\ Last(chunk.bytes) = NUL
          /\ messages' = Deliver(messages, frame)
          /\ readLog' = Append(readLog, frame)
    /\ conns' = [conns EXCEPT ![reader.socket].stream = Tail(@)]
    /\ UNCHANGED <<unitVars, lock, socket_writer, new_socket, socket_gone, reader, nconn, nlog,
                   pc, calls, attempt, result, outcomes, ops, retried, lastLogin,
                   recvLog>>

(* read_until returned Ok with bytes that do not end in NUL (the stream ended
   inside a frame): assert!(buf.last() == Some(&b'\0')) fails and the task
   panics, which drops new_socket_receiver and message_sender *)
ReaderPanic ==
    /\ reader.state = "reading"
    /\ conns[reader.socket].stream # <<>>
    /\ Last(Head(conns[reader.socket].stream).bytes) # NUL
    /\ reader' = [state |-> "panicked", socket |-> 0]
    /\ conns' = [conns EXCEPT ![reader.socket].stream = Tail(@)]
    /\ UNCHANGED <<unitVars, lock, socket_writer, new_socket, messages, socket_gone, nconn, nlog,
                   pc, calls, attempt, result, outcomes, ops, retried, lastLogin,
                   readLog, recvLog>>

(* read_until returned Ok(0): end of file *)
ReaderEof ==
    /\ reader.state = "reading"
    /\ conns[reader.socket].state = "closed"
    /\ conns[reader.socket].stream = <<>>
    /\ socket_gone' = TRUE
    /\ reader' = [state |-> "waiting", socket |-> 0]
    /\ UNCHANGED <<unitVars, lock, socket_writer, new_socket, messages, conns, nconn, nlog,
                   pc, calls, attempt, result, outcomes, ops, retried, lastLogin,
                   readLog, recvLog>>

(* read_until returned Err *)
ReaderError ==
    /\ reader.state = "reading"
    /\ conns[reader.socket].state = "reset"
    /\ socket_gone' = TRUE
    /\ reader' = [state |-> "waiting", socket |-> 0]
    /\ UNCHANGED <<unitVars, lock, socket_writer, new_socket, messages, conns, nconn, nlog,
                   pc, calls, attempt, result, outcomes, ops, retried, lastLogin,
                   readLog, recvLog>>


(* ------------------------------------------------------------------ *)
(* Backend and network                                                 *)
(* ------------------------------------------------------------------ *)

(* the backend answers the oldest command it has received on a live connection *)
BackendAnswer(c) ==
    /\ conns[c].state = "up"
    /\ conns[c].inbox # <<>>
    /\ LET cmd == Head(conns[c].inbox)
       IN conns' = [conns EXCEPT ![c].inbox = Tail(@),
                                 ![c].stream = Append(@, [bytes |-> ResponseTo(cmd.bytes),
                                                          origin |-> cmd.origin,
                                                          conn |-> c])]
    /\ UNCHANGED <<unitVars, lock, socket_writer, new_socket, messages, socket_gone, reader, nconn,
                   nlog, pc, calls, attempt, result, outcomes, ops, retried, lastLogin,
                   readLog, recvLog>>

(* the backend emits an asynchronous LOG notification *)
BackendLog(c) ==
    /\ conns[c].state = "up"
    /\ nlog < MaxLog
    /\ nlog' = nlog + 1
    /\ conns' = [conns EXCEPT ![c].stream = Append(@, [bytes |-> LogText \o <<NUL>>,
                                                       origin |-> NoOrigin,
                                                       conn |-> c])]
    /\ UNCHANGED <<unitVars, lock, socket_writer, new_socket, messages, socket_gone, reader, nconn,
                   pc, calls, attempt, result, outcomes, ops, retried, lastLogin,
                   readLog, recvLog>>

(* the peer closes the connection at a frame boundary: what it has sent can
   still be read, what it has not answered is never answered *)
ConnClosed(c) ==
    /\ conns[c].state = "up"
    /\ conns' = [conns EXCEPT ![c].state = "closed", ![c].inbox = <<>>]
    /\ UNCHANGED <<unitVars, lock, socket_writer, new_socket, messages, socket_gone, reader, nconn,
                   nlog, pc, calls, attempt, result, outcomes, ops, retried, lastLogin,
                   readLog, recvLog>>

(* the peer closes the connection in the middle of a frame it was sending *)
ConnClosedMidFrame(c) ==
    /\ conns[c].state = "up"
    /\ conns' = [conns EXCEPT ![c].state = "closed", ![c].inbox = <<>>,
                              ![c].stream = Append(@, [bytes |-> LogText,
                                                       origin |-> NoOrigin,
                                                       conn |-> c])]
    /\ UNCHANGED <<unitVars, lock, socket_writer, new_socket, messages, socket_gone, reader, nconn,
                   nlog, pc, calls, attempt, result, outcomes, ops, retried, lastLogin,
                   readLog, recvLog>>

(* the connection is reset: unread data is lost and reads fail *)
ConnReset(c) ==
    /\ conns[c].state = "up"
    /\ conns' = [conns EXCEPT ![c].state = "reset", ![c].inbox = <<>>, ![c].stream = <<>>]
    /\ UNCHANGED <<unitVars, lock, socket_writer, new_socket, messages, socket_gone, reader, nconn,
                   nlog, pc, calls, attempt, result, outcomes, ops, retried, lastLogin,
                   readLog, recvLog>>

(* write_all/flush on a write-half: succeeds on a live connection; on a lost
   one it fails, or succeeds into the void while the loss is not yet known
   to the local socket *)
WriteCanSucceed(c) == TRUE
WriteCanFail(c) == conns[c].state # "up"

(* the connection after write_command succeeded on it *)
Written(cs, c, cmd) ==
    IF cs[c].state = "up" THEN [cs EXCEPT ![c].inbox = Append(@, cmd)] ELSE cs

(* ------------------------------------------------------------------ *)
(* Protocol Client: connect_to_radiator                                *)
(* ------------------------------------------------------------------ *)

(* what the login reads with read_until: a frame, or what came before the
   stream ended *)
LoginBufs ==
    { LOGGEDIN \o <<NUL>>, BADLOGIN \o <<NUL>>, LOGGEDIN, <<>>, LogText \o <<NUL>> }

(* the result of connect_to_radiator, were the start of the bytes compared *)
LoginResultByPrefix(buf) ==
    IF StartsWith(buf, LOGGEDIN) THEN "Ok"
    ELSE IF StartsWith(buf, BADLOGIN) THEN "InvalidCredentials"
    ELSE "UnexpectedLoginResponse"

(* the result of connect_to_radiator for the bytes read *)
LoginResult(buf) ==
    IF buf = LOGGEDIN \o <<NUL>> THEN "Ok"
    ELSE IF buf = BADLOGIN \o <<NUL>> THEN "InvalidCredentials"
    ELSE "UnexpectedLoginResponse"

(* ------------------------------------------------------------------ *)
(* Request Coordinator: communicate / communicate_inner                *)
(* ------------------------------------------------------------------ *)
RetryLimit == 3

(* communicate: whether another attempt follows an attempt that failed with err *)
ShouldRetryAnyError(err, n) == n < RetryLimit
ShouldRetry(err, n) == err = "ReaderGone" /\ n < RetryLimit

(* SOCKET_STATE.lock().await can complete for a caller *)
CanAcquireAlways(i) == TRUE
CanAcquire(i) == lock = 0

OriginOf(i) == <<i, calls[i], attempt[i]>>
CommandFrame(i) ==
    [bytes |-> TerminatedCommand(CommandOf(i, calls[i])), origin |-> OriginOf(i),
     conn |-> socket_writer]

(* an attempt ends with an error, were the guard kept *)
AttemptFailsKeepingLock(i, err) ==
    /\ lock' = lock
    /\ outcomes' = [outcomes EXCEPT ![i] = Append(@, err)]
    /\ IF ShouldRetry(err, attempt[i])
       THEN /\ pc' = [pc EXCEPT ![i] = "lock"]
            /\ attempt' = [attempt EXCEPT ![i] = @ + 1]
            /\ UNCHANGED <<unitVars, result>>
       ELSE /\ pc' = [pc EXCEPT ![i] = "idle"]
            /\ result' = [result EXCEPT ![i] = [kind |-> err, frame |-> NoFrame]]
            /\ UNCHANGED <<unitVars, attempt>>

(* an attempt ends with an error: the guard is dropped, and communicate
   starts another attempt or returns the error *)
AttemptFails(i, err) ==
    /\ lock' = 0
    /\ outcomes' = [outcomes EXCEPT ![i] = Append(@, err)]
    /\ IF ShouldRetry(err, attempt[i])
       THEN /\ pc' = [pc EXCEPT ![i] = "lock"]
            /\ attempt' = [attempt EXCEPT ![i] = @ + 1]
            /\ UNCHANGED <<unitVars, result>>
       ELSE /\ pc' = [pc EXCEPT ![i] = "idle"]
            /\ result' = [result EXCEPT ![i] = [kind |-> err, frame |-> NoFrame]]
            /\ UNCHANGED <<unitVars, attempt>>

(* communicate calls started so far, by all callers *)
RECURSIVE SumUpTo(_, _)
SumUpTo(f, n) == IF n = 0 THEN 0 ELSE f[n] + SumUpTo(f, n - 1)
TotalCalls == SumUpTo(calls, NumCallers)

(* a task calls communicate *)
StartCall(i) ==
    /\ pc[i] = "idle"
    /\ TotalCalls < MaxCalls
    /\ calls' = [calls EXCEPT ![i] = @ + 1]
    /\ attempt' = [attempt EXCEPT ![i] = 1]
    /\ pc' = [pc EXCEPT ![i] = "lock"]
    /\ result' = [result EXCEPT ![i] = NoResult]
    /\ outcomes' = [outcomes EXCEPT ![i] = <<>>]
    /\ ops' = [ops EXCEPT ![i] = <<>>]
    /\ retried' = [retried EXCEPT ![i] = NoRetried]
    /\ lastLogin' = NoLogin
    /\ UNCHANGED <<unitVars, lock, socket_writer, new_socket, messages, socket_gone, reader, conns,
                   nconn, nlog, readLog, recvLog>>

(* communicate_inner: the lock is acquired *)
Acquire(i) ==
    /\ pc[i] = "lock"
    /\ CanAcquire(i)
    /\ lock' = i
    /\ pc' = [pc EXCEPT ![i] = "write"]
    /\ ops' = [ops EXCEPT ![i] = <<>>]
    /\ lastLogin' = NoLogin
    /\ UNCHANGED <<unitVars, socket_writer, new_socket, messages, socket_gone, reader, conns,
                   nconn, nlog, calls, attempt, result, outcomes, retried,
                   readLog, recvLog>>

(* the first write_command succeeds *)
FirstWriteOk(i) ==
    /\ pc[i] = "write"
    /\ WriteCanSucceed(socket_writer)
    /\ conns' = Written(conns, socket_writer, CommandFrame(i))
    /\ ops' = [ops EXCEPT ![i] = Append(@, "write_ok")]
    /\ pc' = [pc EXCEPT ![i] = "check"]
    /\ UNCHANGED <<unitVars, lock, socket_writer, new_socket, messages, socket_gone, reader,
                   nconn, nlog, calls, attempt, result, outcomes, retried, lastLogin,
                   readLog, recvLog>>

(* the first write_command fails *)
FirstWriteFails(i) ==
    /\ pc[i] = "write"
    /\ WriteCanFail(socket_writer)
    /\ ops' = [ops EXCEPT ![i] = Append(@, "write_failed")]
    /\ pc' = [pc EXCEPT ![i] = "reconnect"]
    /\ UNCHANGED <<unitVars, lock, socket_writer, new_socket, messages, socket_gone, reader, conns,
                   nconn, nlog, calls, attempt, result, outcomes, retried, lastLogin,
                   readLog, recvLog>>


(* connect_to_radiator fails with an I/O error: TcpStream::connect, the write
   of the login or the read of its answer *)
ReconnectIoError(i) ==
    /\ pc[i] = "reconnect"
    /\ ops' = [ops EXCEPT ![i] = Append(@, "connect_failed")]
    /\ AttemptFails(i, "Io")
    /\ UNCHANGED <<unitVars, socket_writer, new_socket, messages, socket_gone, reader, conns,
                   nconn, nlog, calls, retried, lastLogin, readLog, recvLog>>

(* connect_to_radiator reads the answer to its login: LOGGEDIN installs the
   write-half and sends the read-half to the Reader Task (which panics with
   "sending new socket failed" when the Reader Task is gone: the unwinding
   drops the guard); anything else is an error *)
ReconnectLogin(i) ==
    /\ pc[i] = "reconnect"
    /\ \E buf \in LoginBufs :
         LET r == LoginResult(buf)
             c == nconn + 1
         IN /\ r = "Ok" => nconn < MaxConn
            /\ IF r = "Ok"
               THEN /\ nconn' = c
                    /\ conns' = [conns EXCEPT ![c] = UpConn]
                    /\ socket_writer' = c
                    /\ IF reader.state # "panicked"
                       THEN /\ new_socket' = Append(new_socket, c)
                            /\ lastLogin' = [buf |-> buf, outcome |-> "Ok",
                                             installed |-> c, handed |-> TRUE, by |-> i]
                            /\ ops' = [ops EXCEPT ![i] = Append(@, "connect_ok")]
                            /\ pc' = [pc EXCEPT ![i] = "rewrite"]
                            /\ UNCHANGED <<unitVars, lock, result, outcomes, attempt>>
                       ELSE /\ lastLogin' = [buf |-> buf, outcome |-> "panic",
                                             installed |-> c, handed |-> FALSE, by |-> i]
                            /\ ops' = [ops EXCEPT ![i] = Append(@, "connect_panicked")]
                            /\ pc' = [pc EXCEPT ![i] = "panicked"]
                            /\ lock' = 0
                            /\ result' = [result EXCEPT ![i] = [kind |-> "panic",
                                                                frame |-> NoFrame]]
                            /\ outcomes' = [outcomes EXCEPT ![i] = Append(@, "panic")]
                            /\ UNCHANGED <<unitVars, new_socket, attempt>>
               ELSE /\ lastLogin' = [buf |-> buf, outcome |-> r,
                                     installed |-> 0, handed |-> FALSE, by |-> i]
                    /\ ops' = [ops EXCEPT ![i] = Append(@, "connect_failed")]
                    /\ AttemptFails(i, r)
                    /\ UNCHANGED <<unitVars, nconn, conns, socket_writer, new_socket>>
    /\ UNCHANGED <<unitVars, messages, socket_gone, reader, nlog, calls, retried, readLog, recvLog>>

(* the write_command after the reconnect succeeds *)
SecondWriteOk(i) ==
    /\ pc[i] = "rewrite"
    /\ WriteCanSucceed(socket_writer)
    /\ conns' = Written(conns, socket_writer, CommandFrame(i))
    /\ ops' = [ops EXCEPT ![i] = Append(@, "write_ok")]
    /\ retried' = [retried EXCEPT ![i] = [origin |-> OriginOf(i), conn |-> socket_writer]]
    /\ pc' = [pc EXCEPT ![i] = "check"]
    /\ UNCHANGED <<unitVars, lock, socket_writer, new_socket, messages, socket_gone, reader,
                   nconn, nlog, calls, attempt, result, outcomes, lastLogin,
                   readLog, recvLog>>

(* what follows a failure of the write_command after the reconnect *)
SecondWriteFailureReconnects(i) ==
    /\ pc' = [pc EXCEPT ![i] = "reconnect"]
    /\ UNCHANGED <<unitVars, lock, outcomes, attempt, result>>
SecondWriteFailure(i) == AttemptFails(i, "Io")

(* the write_command after the reconnect fails *)
SecondWriteFails(i) ==
    /\ pc[i] = "rewrite"
    /\ WriteCanFail(socket_writer)
    /\ ops' = [ops EXCEPT ![i] = Append(@, "write_failed")]
    /\ SecondWriteFailure(i)
    /\ UNCHANGED <<unitVars, socket_writer, new_socket, messages, socket_gone, reader, conns,
                   nconn, nlog, calls, retried, lastLogin, readLog, recvLog>>

(* SOCKET_GONE.swap(false): raised => ReaderGone, otherwise go on to receive *)
CheckGone(i) ==
    /\ pc[i] = "check"
    /\ socket_gone' = FALSE
    /\ IF socket_gone
       THEN AttemptFails(i, "ReaderGone")
       ELSE /\ pc' = [pc EXCEPT ![i] = "recv"]
            /\ UNCHANGED <<unitVars, lock, outcomes, attempt, result>>
    /\ UNCHANGED <<unitVars, socket_writer, new_socket, messages, reader, conns, nconn, nlog,
                   calls, ops, retried, lastLogin, readLog, recvLog>>

(* message_receiver.recv() returns the next message: communicate returns it *)
Receive(i) ==
    /\ pc[i] = "recv"
    /\ messages # <<>>
    /\ messages' = Tail(messages)
    /\ recvLog' = Append(recvLog, Head(messages))
    /\ result' = [result EXCEPT ![i] = [kind |-> "Ok", frame |-> Head(messages)]]
    /\ outcomes' = [outcomes EXCEPT ![i] = Append(@, "Ok")]
    /\ lock' = 0
    /\ pc' = [pc EXCEPT ![i] = "idle"]
    /\ UNCHANGED <<unitVars, socket_writer, new_socket, socket_gone, reader, conns, nconn, nlog,
                   calls, attempt, ops, retried, lastLogin, readLog>>

(* message_receiver.recv() returns None: the channel is empty and its sender
   was dropped with the Reader Task *)
ReceiveClosed(i) ==
    /\ pc[i] = "recv"
    /\ messages = <<>>
    /\ reader.state = "panicked"
    /\ AttemptFails(i, "ReaderGone")
    /\ UNCHANGED <<unitVars, socket_writer, new_socket, messages, socket_gone, reader, conns,
                   nconn, nlog, calls, ops, retried, lastLogin, readLog, recvLog>>

(* ------------------------------------------------------------------ *)
(* Specifications of the protocol client                               *)
(* ------------------------------------------------------------------ *)
ReaderNext ==
    \/ ReaderObtain
    \/ ReaderRead
    \/ ReaderPanic
    \/ ReaderEof
    \/ ReaderError

NetworkNext ==
    \/ \E c \in ConnIds : BackendAnswer(c)
    \/ \E c \in ConnIds : BackendLog(c)
    \/ \E c \in ConnIds : ConnClosed(c)
    \/ \E c \in ConnIds : ConnClosedMidFrame(c)
    \/ \E c \in ConnIds : ConnReset(c)

CallerNext ==
    \/ \E i \in Callers : StartCall(i)
    \/ \E i \in Callers : Acquire(i)
    \/ \E i \in Callers : FirstWriteOk(i)
    \/ \E i \in Callers : FirstWriteFails(i)
    \/ \E i \in Callers : ReconnectIoError(i)
    \/ \E i \in Callers : ReconnectLogin(i)
    \/ \E i \in Callers : SecondWriteOk(i)
    \/ \E i \in Callers : SecondWriteFails(i)
    \/ \E i \in Callers : CheckGone(i)
    \/ \E i \in Callers : Receive(i)
    \/ \E i \in Callers : ReceiveClosed(i)

Next == ReaderNext \/ NetworkNext \/ CallerNext

Spec == Init /\ [][Next]_vars


(* the connection never fails: no loss, hence no failed write, no reconnect *)
NextStable ==
    \/ ReaderObtain
    \/ ReaderRead
    \/ \E c \in ConnIds : BackendAnswer(c)
    \/ \E c \in ConnIds : BackendLog(c)
    \/ \E i \in Callers : StartCall(i)
    \/ \E i \in Callers : Acquire(i)
    \/ \E i \in Callers : FirstWriteOk(i)
    \/ \E i \in Callers : CheckGone(i)
    \/ \E i \in Callers : Receive(i)

SpecStable == Init /\ [][NextStable]_vars

(* ------------------------------------------------------------------ *)
(* Properties of the protocol client                                   *)
(* ------------------------------------------------------------------ *)
InAttempt(i) == pc[i] \in {"write", "reconnect", "rewrite", "check", "recv"}
Returned(i) == pc[i] = "idle" /\ result[i].kind # "none"
IsResponse(f) == f.origin # NoOrigin
OnConn(c, f) == f.conn = c /\ IsResponse(f)
NotLog(f) == ~StartsWith(f.bytes, LOG_PREFIX)

(* commands written on connection c whose response no caller has received yet *)
CommandsInFlight(c) ==
    Len(conns[c].inbox)
    + Len(SelectSeq(conns[c].stream, IsResponse))
    + Len(SelectSeq(messages, LAMBDA f : OnConn(c, f)))

(* C1: at most one caller is between acquiring the lock and leaving its
   attempt, it is the holder of the lock, and on no connection is a second
   command written while a first one still awaits its response: at most one
   command is in flight. *)
C1_OneCommandInFlight ==
    /\ Cardinality({i \in Callers : InAttempt(i)}) <= 1
    /\ \A i \in Callers : InAttempt(i) <=> lock = i
    /\ \A c \in ConnIds : CommandsInFlight(c) <= 1

(* C2: a communicate call that returns Ok returns the response the backend
   produced for the command written by that call in the attempt that
   returned, never one for another caller's command or for the write of an
   earlier, abandoned attempt. *)
C2_NoMisattribution ==
    \A i \in Callers :
        result[i].kind = "Ok" => result[i].frame.origin = <<i, calls[i], attempt[i]>>

(* C3: with a connection that never fails, every communicate call that has
   returned has returned Ok with exactly the backend's response to its own
   request, whatever the order in which the callers got the lock. *)
C3_NoCrossTalk ==
    \A i \in Callers :
        result[i].kind # "none" =>
            /\ result[i].kind = "Ok"
            /\ result[i].frame.origin[1] = i
            /\ result[i].frame.origin[2] = calls[i]
            /\ result[i].frame.bytes
                 = CommandOf(i, calls[i]) \o <<"\n", "k", ":", "1">>

(* every caller has made a call and got its answer, the last caller first *)
C3_Witness ==
    /\ \A i \in Callers : calls[i] >= 1 /\ result[i].kind = "Ok"
    /\ recvLog # <<>>
    /\ recvLog[1].origin[1] = NumCallers

(* C4: communicate runs at most 3 attempts; every attempt but the last one
   failed with ReaderGone; the first Ok or the first other error ends the call
   and is what the call returns; after 3 ReaderGone failures the call returns
   ReaderGone. *)
C4_RetryPolicy ==
    \A i \in Callers :
        /\ Len(outcomes[i]) <= 3
        /\ attempt[i] <= 3
        /\ \A k \in 1..(Len(outcomes[i]) - 1) : outcomes[i][k] = "ReaderGone"
        /\ pc[i] \notin {"idle", "panicked"} =>
              /\ Len(outcomes[i]) = attempt[i] - 1
              /\ \A k \in 1..Len(outcomes[i]) : outcomes[i][k] = "ReaderGone"
        /\ Returned(i) =>
              /\ Len(outcomes[i]) = attempt[i]
              /\ result[i].kind = outcomes[i][Len(outcomes[i])]
        /\ (Len(outcomes[i]) = 3 /\ outcomes[i][3] = "ReaderGone") =>
              (pc[i] = "idle" /\ result[i].kind = "ReaderGone")

(* a call has returned ReaderGone after three attempts that failed with it *)
C4_Witness ==
    \E i \in Callers :
        /\ pc[i] = "idle"
        /\ outcomes[i] = <<"ReaderGone", "ReaderGone", "ReaderGone">>
        /\ result[i].kind = "ReaderGone"

(* C5: within one attempt a reconnect follows only a failed first write and
   happens at most once; after a failed reconnect no second write is made and
   the call returns the reconnect's error; after a successful reconnect the
   command is written exactly once more, and a failure of that write ends the
   call with the I/O error: at most one reconnect and two writes per attempt. *)
C5_OneReconnectTwoWrites ==
    \A i \in Callers :
        /\ ops[i] \in { <<>>,
                        <<"write_ok">>,
                        <<"write_failed">>,
                        <<"write_failed", "connect_failed">>,
                        <<"write_failed", "connect_panicked">>,
                        <<"write_failed", "connect_ok">>,
                        <<"write_failed", "connect_ok", "write_ok">>,
                        <<"write_failed", "connect_ok", "write_failed">> }
        /\ ops[i] = <<"write_failed", "connect_failed">> =>
              /\ pc[i] = "idle"
              /\ result[i].kind \in {"Io", "InvalidCredentials", "UnexpectedLoginResponse"}
        /\ ops[i] = <<"write_failed", "connect_ok">> => pc[i] = "rewrite"
        /\ ops[i] = <<"write_failed", "connect_ok", "write_failed">> =>
              (pc[i] = "idle" /\ result[i].kind = "Io")

(* an attempt has reconnected and written the command a second time *)
C5_Witness ==
    \E i \in Callers : ops[i] = <<"write_failed", "connect_ok", "write_ok">>

(* C6: a call whose first write failed and whose reconnect and retried write
   then succeeded (on a connection that is still up when the call returns)
   returns Ok with the backend's response to that retried write, and no
   error. *)
C6_RetriedWriteAnswered ==
    \A i \in Callers :
        ( /\ Returned(i)
          /\ retried[i].origin = <<i, calls[i], 1>>
          /\ conns[retried[i].conn].state = "up" )
        => ( /\ result[i].kind = "Ok"
             /\ result[i].frame.origin = retried[i].origin )

(* C7: connect succeeds exactly when the bytes read after the login are the
   frame LOGGEDIN, and exactly then installs the write-half and hands over
   the read-half; BADLOGIN gives InvalidCredentials, anything else
   UnexpectedLoginResponse, and communicate returns that error with no
   further login or write. *)
C7_LoginDecides ==
    lastLogin.outcome # "none" =>
        /\ lastLogin.outcome = "Ok" <=> lastLogin.buf = LOGGEDIN \o <<NUL>>
        /\ lastLogin.installed # 0 <=> lastLogin.outcome = "Ok"
        /\ lastLogin.handed <=> lastLogin.outcome = "Ok"
        /\ lastLogin.buf = BADLOGIN \o <<NUL>> => lastLogin.outcome = "InvalidCredentials"
        /\ lastLogin.buf \notin {LOGGEDIN \o <<NUL>>, BADLOGIN \o <<NUL>>} =>
              lastLogin.outcome = "UnexpectedLoginResponse"
        /\ lastLogin.outcome \in {"InvalidCredentials", "UnexpectedLoginResponse"} =>
              /\ pc[lastLogin.by] = "idle"
              /\ result[lastLogin.by].kind = lastLogin.outcome
              /\ ops[lastLogin.by] = <<"write_failed", "connect_failed">>

(* C8: the Reader Task forwards no frame that starts with "LOG " and every
   other frame exactly once and in the order read: what the coordinator has
   received, followed by what waits in the delivery channel, is the sequence
   of the non-LOG frames read. *)
C8_DeliveredInOrder ==
    recvLog \o messages = SelectSeq(readLog, NotLog)

(* the Reader Task has read a LOG frame and, after it, a frame it forwarded,
   and a caller has received a frame *)
C8_Witness ==
    /\ recvLog # <<>>
    /\ \E k \in 1..Len(readLog) : \E m \in 1..Len(readLog) :
          k < m /\ ~NotLog(readLog[k]) /\ NotLog(readLog[m])

(* C9: the Reader Task never terminates (the handoff channel is never closed
   while the process runs): after a read error or the end of a stream,
   wherever the stream ends, it waits for the next read-half. *)
C9_ReaderNeverTerminates ==
    reader.state # "panicked"


(* a communicate call has written its command and waits for the response *)
AwaitsResponse(i) == pc[i] \in {"check", "recv"}

(* C20: a reconnect replaces both halves of the connection together: at
   every point where a communicate call has written its command and waits
   for the response, the read-half the Reader Task is reading from is of the
   same TCP connection as the installed write-half; the write-half is never
   of the new connection while the Reader Task still reads the old one. *)
C20_HalvesReplacedTogether ==
    \A i \in Callers :
        (AwaitsResponse(i) /\ reader.state = "reading") => reader.socket = socket_writer

(* the death-signal check of caller i ends its attempt with ReaderGone *)
GoneAtCheck(i) ==
    /\ pc[i] = "check"
    /\ pc'[i] # "check"
    /\ pc'[i] # "recv"

(* C21: after a successful write an attempt fails with ReaderGone at the
   death-signal check only if the read-half of the connection the command
   was just written on has failed; otherwise it goes on to await the
   response. *)
C21_GoneOnlyForWrittenConnection ==
    [][\A i \in Callers : GoneAtCheck(i) => conns[socket_writer].state # "up"]_vars

(* C22: the lock is released on every exit path of an attempt (the
   response, a failed reconnect, a failed retried write, ReaderGone at the
   death-signal check or on a closed delivery channel): it is held only by a
   caller that is executing an attempt, so a caller that has finished a call
   or waits for its next attempt does not hold it. *)
C22_LockReleasedOnExit ==
    /\ lock \in {0} \cup Callers
    /\ \A i \in Callers : pc[i] \in {"idle", "lock", "panicked"} => lock # i
    /\ (\A i \in Callers : ~InAttempt(i)) => lock = 0

(* a call has returned an error and another caller has since acquired the
   lock *)
C22_Witness ==
    \E i, j \in Callers :
        /\ i # j
        /\ Returned(i)
        /\ result[i].kind \in {"Io", "InvalidCredentials", "UnexpectedLoginResponse", "ReaderGone"}
        /\ lock = j
        /\ InAttempt(j)

(* responses to written commands that the Reader Task has yet to read, or
   the backend to send, on connection c *)
Outstanding(c) == Len(conns[c].inbox) + Len(SelectSeq(conns[c].stream, IsResponse))

(* C26: whenever no communicate call holds the lock, the delivery channel
   is empty and no response to a written command is outstanding on the
   connection the Reader Task reads: every command written is matched by
   one response consumed by the attempt that wrote it before the lock is
   released. *)
C26_QuiescentWhenUnlocked ==
    lock = 0 =>
        /\ messages = <<>>
        /\ reader.state = "reading" => Outstanding(reader.socket) = 0

(* the steps of caller i inside a communicate call *)
CallerStep(i) ==
    \/ Acquire(i)
    \/ FirstWriteOk(i)
    \/ FirstWriteFails(i)
    \/ ReconnectIoError(i)
    \/ ReconnectLogin(i)
    \/ SecondWriteOk(i)
    \/ SecondWriteFails(i)
    \/ CheckGone(i)
    \/ Receive(i)
    \/ ReceiveClosed(i)

(* fair scheduling: the Reader Task and every caller inside a call keep
   running, and the backend answers every command it has received on a
   live connection; when the connection is lost and when a call starts is
   left open *)
Fairness ==
    /\ WF_vars(ReaderNext)
    /\ \A c \in ConnIds : WF_vars(BackendAnswer(c))
    /\ \A i \in Callers : WF_vars(CallerStep(i))

SpecFair == Init /\ [][Next]_vars /\ Fairness

(* C27: under fair scheduling and with a backend that answers every
   command it receives on a live connection, every communicate call
   eventually ends, wherever the connection is lost: no call waits forever
   on the delivery channel while the Reader Task waits for a new
   read-half. *)
C27_EveryCallReturns ==
    \A i \in Callers : (pc[i] # "idle") ~> (pc[i] \in {"idle", "panicked"})

(* connect_to_radiator, called by caller i, returns an error: the TCP
   connect or the login failed, or the answer to the login is not LOGGEDIN *)
ConnectFails(i) ==
    /\ pc[i] = "reconnect"
    /\ pc'[i] # "reconnect"
    /\ lastLogin'.buf # LOGGEDIN \o <<NUL>>

(* C28: a connect or reconnect that fails (TCP connect error, I/O error
   during the login, BADLOGIN, unexpected login response) leaves the
   connection state as it was: the installed write-half is not replaced, no
   read-half is handed to the Reader Task, and the death signal and the
   delivery channel are not modified. *)
C28_FailedConnectChangesNothing ==
    [][\A i \in Callers :
          ConnectFails(i) =>
             /\ socket_writer' = socket_writer
             /\ new_socket' = new_socket
             /\ reader' = reader
             /\ socket_gone' = socket_gone
             /\ messages' = messages
             /\ conns' = conns
             /\ nconn' = nconn]_vars

(* a reconnect has failed on the answer to its login and the call has
   returned that error, the first write-half still installed and the death
   signal still raised *)
C28_Witness ==
    \E i \in Callers :
        /\ Returned(i)
        /\ ops[i] = <<"write_failed", "connect_failed">>
        /\ result[i].kind \in {"InvalidCredentials", "UnexpectedLoginResponse"}
        /\ lastLogin.by = i
        /\ lastLogin.buf # <<>>
        /\ socket_writer = 1
        /\ socket_gone

(***************************************************************************)
(* Part 2 (specification SpecScrape): one scrape, handle_request of        *)
(* src/src/main.rs, with the frame codec (decode_stats,                    *)
(* extract_identifier), the startup validation of the configuration        *)
(* (config.rs) and the metric registry (openmetrics.rs). What communicate  *)
(* returns to the scrape is an input: Ok with any frame, or an error.      *)
(*                                                                         *)
(* A string or byte string is a sequence of tokens: a token is one         *)
(* character, or a word standing for a run of letters and digits that no   *)
(* delimiter splits.                                                       *)
(***************************************************************************)
SOH == "SOH"
LF == "\n"
COLON == ":"
XFF == "xFF"

Digits == {"0", "1", "2", "3", "4", "5", "6", "7", "8", "9"}
Letters == {"a", "b", "c", "d", "e", "i", "m", "n", "x", "A", "B",
            "k1", "k2", "id", "bad", "Identifier", "string", "integer", "Name",
            "STATS", "DESCRIBE", "NOSUCHOBJECT", "P", "Q"}

(* char::is_ascii_alphabetic, char::is_ascii_digit *)
IsAsciiAlphabetic(t) == t \in Letters
IsAsciiDigit(t) == t \in Digits

(* the index of the first token t in s at or after position k, 0 if none *)
RECURSIVE PositionFrom(_, _, _)
PositionFrom(s, t, k) ==
    IF k > Len(s) THEN 0
    ELSE IF s[k] = t THEN k
    ELSE PositionFrom(s, t, k + 1)
Position(s, t) == PositionFrom(s, t, 1)

(* str::split: the pieces between the delimiters, at least one piece *)
RECURSIVE Split(_, _)
Split(s, d) ==
    LET k == Position(s, d)
    IN IF k = 0 THEN <<s>>
       ELSE <<SubSeq(s, 1, k - 1)>> \o Split(SubSeq(s, k + 1, Len(s)), d)

(* str::split_once at the first delimiter *)
HasDelimiter(s, d) == Position(s, d) # 0
Before(s, d) == SubSeq(s, 1, Position(s, d) - 1)
After(s, d) == SubSeq(s, Position(s, d) + 1, Len(s))

(* std::str::from_utf8 succeeds: no byte that is invalid in UTF-8 *)
ValidUtf8(s) == \A k \in 1..Len(s) : s[k] # XFF

(* str::parse::<i64>: an optional sign and at least one digit (values that
   fit 64 bits) *)
UnsignedDigits(s) == Len(s) >= 1 /\ \A k \in 1..Len(s) : IsAsciiDigit(s[k])
Unsigned(s) ==
    IF s # <<>> /\ s[1] \in {"-", "+"} THEN Tail(s) ELSE s
ParsesAsInteger(s) == UnsignedDigits(Unsigned(s))

DigitValue(t) == CHOOSE n \in 0..9 : ToString(n) = t
RECURSIVE DigitsValue(_)
DigitsValue(s) ==
    IF s = <<>> THEN 0 ELSE 10 * DigitsValue(Pop(s)) + DigitValue(Last(s))
IntegerValue(s) ==
    IF s[1] = "-" THEN 0 - DigitsValue(Tail(s)) ELSE DigitsValue(Unsigned(s))

(* str::parse::<f64>, for the decimal notation: an optional sign, digits
   with at most one point, and at least one digit *)
ParsesAsFloat(s) ==
    LET u == Unsigned(s)
        points == {k \in 1..Len(u) : u[k] = "."}
    IN /\ Cardinality(points) <= 1
       /\ \A k \in 1..Len(u) : IsAsciiDigit(u[k]) \/ u[k] = "."
       /\ \E k \in 1..Len(u) : IsAsciiDigit(u[k])

(* Number *)
IntegerNumber(s) == [type |-> "Integer", int |-> IntegerValue(s), text |-> <<>>]
FloatNumber(s) == [type |-> "Float", int |-> 0, text |-> s]

(* HashMap / BTreeMap insert *)
Insert(m, key, value) ==
    [k \in (DOMAIN m) \cup {key} |-> IF k = key THEN value ELSE m[k]]

(* decode_stats: the loop over the key-value pairs, were the first value of
   a key kept *)
RECURSIVE DecodePairsFirstWins(_, _)
DecodePairsFirstWins(pairs, decoded) ==
    IF pairs = <<>> THEN decoded
    ELSE LET pair == Head(pairs)
             value == After(pair, COLON)
             key == Before(pair, COLON)
         IN IF ~HasDelimiter(pair, COLON) \/ key \in DOMAIN decoded
            THEN DecodePairsFirstWins(Tail(pairs), decoded)
            ELSE IF ParsesAsInteger(value)
            THEN DecodePairsFirstWins(Tail(pairs), Insert(decoded, key, IntegerNumber(value)))
            ELSE IF ParsesAsFloat(value)
            THEN DecodePairsFirstWins(Tail(pairs), Insert(decoded, key, FloatNumber(value)))
            ELSE DecodePairsFirstWins(Tail(pairs), decoded)

(* decode_stats: the loop over the key-value pairs *)
RECURSIVE DecodePairs(_, _)
DecodePairs(pairs, decoded) ==
    IF pairs = <<>> THEN decoded
    ELSE LET pair == Head(pairs)
             value == After(pair, COLON)
         IN IF ~HasDelimiter(pair, COLON) THEN DecodePairs(Tail(pairs), decoded)
            ELSE IF ParsesAsInteger(value)
            THEN DecodePairs(Tail(pairs),
                             Insert(decoded, Before(pair, COLON), IntegerNumber(value)))
            ELSE IF ParsesAsFloat(value)
            THEN DecodePairs(Tail(pairs),
                             Insert(decoded, Before(pair, COLON), FloatNumber(value)))
            ELSE DecodePairs(Tail(pairs), decoded)

(* decode_stats: None without a newline or with a payload that is not UTF-8 *)
Decodes(response) ==
    /\ HasDelimiter(response, LF)
    /\ ValidUtf8(After(response, LF))
decode_stats(response) ==
    IF Decodes(response)
    THEN [some |-> TRUE, stats |-> DecodePairs(Split(After(response, LF), SOH), EmptyMap)]
    ELSE [some |-> FALSE, stats |-> EmptyMap]

(* extract_identifier: the loop over the key-type-value tuples *)
RECURSIVE FindIdentifier(_)
FindIdentifier(tuples) ==
    IF tuples = <<>> THEN [some |-> FALSE, id |-> <<>>]
    ELSE LET t == Head(tuples)
             tv == After(t, COLON)
         IN IF ~HasDelimiter(t, COLON) THEN FindIdentifier(Tail(tuples))
            ELSE IF ~HasDelimiter(tv, COLON) THEN FindIdentifier(Tail(tuples))
            ELSE IF Before(t, COLON) = <<"Identifier">> /\ Before(tv, COLON) = <<"string">>
            THEN [some |-> TRUE, id |-> After(tv, COLON)]
            ELSE FindIdentifier(Tail(tuples))

extract_identifier(response) ==
    IF HasDelimiter(response, LF) /\ ValidUtf8(After(response, LF))
    THEN FindIdentifier(Split(After(response, LF), SOH))
    ELSE [some |-> FALSE, id |-> <<>>]


(* ------------------------------------------------------------------ *)
(* Strings: order and options                                          *)
(* ------------------------------------------------------------------ *)

(* the tokens in the order of their bytes *)
TokenOrder ==
    <<" ", "-", ".", "0", "1", "2", "3", "4", "5", "6", "7", "8", "9", ":",
      "A", "B", "DESCRIBE", "Identifier", "NOSUCHOBJECT", "Name", "P", "Q", "STATS",
      "_", "a", "b", "bad", "c", "d", "e", "i", "id", "integer", "k1", "k2", "m", "n",
      "string", "x", "y">>
TokenRank(t) == CHOOSE k \in 1..Len(TokenOrder) : TokenOrder[k] = t

(* Ord for String and for Vec<String>: lexicographic *)
RECURSIVE StrLess(_, _)
StrLess(a, b) ==
    IF b = <<>> THEN FALSE
    ELSE IF a = <<>> THEN TRUE
    ELSE IF a[1] = b[1] THEN StrLess(Tail(a), Tail(b))
    ELSE TokenRank(a[1]) < TokenRank(b[1])

RECURSIVE TupleLess(_, _)
TupleLess(a, b) ==
    IF b = <<>> THEN FALSE
    ELSE IF a = <<>> THEN TRUE
    ELSE IF a[1] = b[1] THEN TupleLess(Tail(a), Tail(b))
    ELSE StrLess(a[1], b[1])

(* the elements of a set of strings in ascending order (BTreeSet iteration) *)
RECURSIVE Ascending(_)
Ascending(S) ==
    IF S = {} THEN <<>>
    ELSE LET least == CHOOSE x \in S : \A y \in S \ {x} : StrLess(x, y)
         IN <<least>> \o Ascending(S \ {least})

(* the elements of a set of tuples of strings in ascending order (BTreeMap
   iteration of Vec<String> keys) *)
RECURSIVE AscendingTuples(_)
AscendingTuples(S) ==
    IF S = {} THEN <<>>
    ELSE LET least == CHOOSE x \in S : \A y \in S \ {x} : TupleLess(x, y)
         IN <<least>> \o AscendingTuples(S \ {least})

None == [some |-> FALSE, v |-> <<>>]
Some(x) == [some |-> TRUE, v |-> x]

(* ------------------------------------------------------------------ *)
(* Metric registry: openmetrics.rs                                     *)
(* ------------------------------------------------------------------ *)

(* metricname-initial-char and metricname-char *)
IsMetricNameInitialChar(t) == IsAsciiAlphabetic(t) \/ t = "_" \/ t = ":"
IsMetricNameChar(t) == IsAsciiAlphabetic(t) \/ IsAsciiDigit(t) \/ t = "_" \/ t = ":"
IsLabelNameInitialChar(t) == IsAsciiAlphabetic(t) \/ t = "_"
IsLabelNameChar(t) == IsAsciiAlphabetic(t) \/ IsAsciiDigit(t) \/ t = "_"

(* the assertions of Metric::new *)
MetricNameOk(name) ==
    /\ Len(name) > 0
    /\ IsMetricNameInitialChar(name[1])
    /\ \A k \in 2..Len(name) : IsMetricNameChar(name[k])

(* the assertions of Metric::set_unit and Metric::set_help *)
UnitOk(unit) ==
    unit.some => ( /\ Len(unit.v) > 0
                   /\ \A k \in 1..Len(unit.v) : IsMetricNameChar(unit.v[k]) )
HelpOk(help) == help.some => Len(help.v) > 0

(* the assertions of Metric::add_label: samples empty, label grammar
   (chars().nth(0).unwrap() panics on an empty label) *)
LabelNameOk(label) ==
    /\ Len(label) > 0
    /\ IsLabelNameInitialChar(label[1])
    /\ \A k \in 2..Len(label) : IsLabelNameChar(label[k])

(* Metric::new *)
NewMetric(name, kind) ==
    [name |-> name, kind |-> kind, help |-> None, unit |-> None,
     label_names |-> {}, samples |-> EmptyMap]

(* a registry under construction: the metrics, and whether an assertion
   failed or a panic was raised while building it *)
Fault(db) == [db EXCEPT !.fault = TRUE]

(* MetricDatabase::get_or_insert *)
GetOrInsert(db, name, kind) ==
    IF db.fault \/ name \in DOMAIN db.metrics THEN db
    ELSE IF ~MetricNameOk(name) THEN Fault(db)
    ELSE [db EXCEPT !.metrics = Insert(@, name, NewMetric(name, kind))]

(* Metric::set_unit, Metric::set_help *)
SetUnit(db, name, unit) ==
    IF db.fault THEN db
    ELSE IF ~UnitOk(unit) THEN Fault(db)
    ELSE [db EXCEPT !.metrics[name].unit = unit]
SetHelp(db, name, help) ==
    IF db.fault THEN db
    ELSE IF ~HelpOk(help) THEN Fault(db)
    ELSE [db EXCEPT !.metrics[name].help = help]

(* Metric::has_label, Metric::add_label *)
HasLabel(db, name, label) == label \in db.metrics[name].label_names
AddLabelAnytime(db, name, label) ==
    IF db.fault THEN db
    ELSE IF ~LabelNameOk(label) THEN Fault(db)
    ELSE [db EXCEPT !.metrics[name].label_names = @ \cup {label}]
AddLabel(db, name, label) ==
    IF db.fault THEN db
    ELSE IF db.metrics[name].samples # EmptyMap \/ ~LabelNameOk(label) THEN Fault(db)
    ELSE [db EXCEPT !.metrics[name].label_names = @ \cup {label}]

(* Metric::add_sample, were the value of an existing key kept *)
AddSampleKeepingFirst(db, name, labels, value) ==
    IF db.fault THEN db
    ELSE IF DOMAIN labels # db.metrics[name].label_names THEN Fault(db)
    ELSE LET key == [k \in 1..Cardinality(DOMAIN labels) |->
                        labels[Ascending(db.metrics[name].label_names)[k]]]
         IN IF key \in DOMAIN db.metrics[name].samples THEN db
            ELSE [db EXCEPT !.metrics[name].samples = Insert(@, key, value)]

(* Metric::add_sample: the label values in the order of the label names;
   a missing or an unknown label panics *)
LabelValues(names, labels) ==
    [k \in 1..Len(names) |-> labels[names[k]]]
AddSample(db, name, labels, value) ==
    IF db.fault THEN db
    ELSE IF DOMAIN labels # db.metrics[name].label_names THEN Fault(db)
    ELSE [db EXCEPT !.metrics[name].samples =
              Insert(@, LabelValues(Ascending(db.metrics[name].label_names), labels), value)]


(* ------------------------------------------------------------------ *)
(* Configuration: config.rs                                            *)
(* ------------------------------------------------------------------ *)

(* SampleConfig, MetricConfig, PerObjectMetricConfig, Config *)
SampleConfig(labels, statistic) == [labels |-> labels, statistic |-> statistic]
MetricConfig(metric, kind, help, unit, samples) ==
    [metric |-> metric, kind |-> kind, help |-> help, unit |-> unit, samples |-> samples]
PerObjectMetricConfig(kind, identifier_label, metrics) ==
    [kind |-> kind, identifier_label |-> identifier_label, metrics |-> metrics]
Config(username, password, metrics, per_object_metrics) ==
    [username |-> username, password |-> password, metrics |-> metrics,
     per_object_metrics |-> per_object_metrics]

Contains(s, t) == \E k \in 1..Len(s) : s[k] = t
AllMetricNameChars(s) == \A k \in 1..Len(s) : IsMetricNameChar(s[k])
AllLabelNameChars(s) == \A k \in 1..Len(s) : IsLabelNameChar(s[k])

(* check_metric: the loop over the label keys of one sample *)
RECURSIVE CheckLabelKeys(_)
CheckLabelKeys(keys) ==
    IF keys = <<>> THEN "Ok"
    ELSE LET key == Head(keys)
         IN IF Len(key) = 0 THEN "label key must not be empty"
            ELSE IF ~(IsAsciiAlphabetic(key[1]) \/ key[1] = "_")
            THEN "label key must start with an ASCII letter or an underscore"
            ELSE IF ~AllLabelNameChars(Tail(key))
            THEN "label key must consist only of ASCII letters, ASCII digits and underscores"
            ELSE CheckLabelKeys(Tail(keys))

(* check_metric: the loop over the samples *)
RECURSIVE CheckSamples(_)
CheckSamples(samples) ==
    IF samples = <<>> THEN "Ok"
    ELSE LET sample == Head(samples)
             keys == CheckLabelKeys(Ascending(DOMAIN sample.labels))
         IN IF Contains(sample.statistic, COLON) THEN "statistic must not contain a colon"
            ELSE IF keys # "Ok" THEN keys
            ELSE CheckSamples(Tail(samples))

(* check_metric, given the names seen before this metric *)
check_metric(metric, known_metrics) ==
    IF metric.metric \in known_metrics THEN "metric is not unique"
    ELSE IF Len(metric.metric) = 0 THEN "metric must not be empty"
    ELSE IF ~( IsAsciiAlphabetic(metric.metric[1])
               \/ (metric.metric[1] = "_" /\ metric.metric[1] = ":") )
    THEN "metric must start with an ASCII letter, an underscore or a colon"
    ELSE IF ~AllMetricNameChars(Tail(metric.metric))
    THEN "metric must consist only of ASCII letters, ASCII digits, underscores and colons"
    ELSE IF metric.unit.some /\ ~AllMetricNameChars(metric.unit.v)
    THEN "unit must be null or consist only of ASCII letters, ASCII digits, underscores and colons"
    ELSE CheckSamples(metric.samples)

(* check: the loop over a list of metrics; the result and the names seen *)
RECURSIVE CheckMetrics(_, _)
CheckMetrics(metrics, known_metrics) ==
    IF metrics = <<>> THEN [result |-> "Ok", known |-> known_metrics]
    ELSE LET r == check_metric(Head(metrics), known_metrics)
         IN IF r # "Ok" THEN [result |-> r, known |-> known_metrics]
            ELSE CheckMetrics(Tail(metrics), known_metrics \cup {Head(metrics).metric})

(* check: the loop over per_object_metrics *)
RECURSIVE CheckPerObject(_, _, _)
CheckPerObject(per_object_metrics, known_objects, known_metrics) ==
    IF per_object_metrics = <<>> THEN "Ok"
    ELSE LET pom == Head(per_object_metrics)
             r == CheckMetrics(pom.metrics, known_metrics)
         IN IF pom.kind \in known_objects THEN "kind is not unique"
            ELSE IF r.result # "Ok" THEN r.result
            ELSE CheckPerObject(Tail(per_object_metrics), known_objects \cup {pom.kind}, r.known)

(* check *)
CheckSeparateNamespaces(cfg) ==
    IF Contains(cfg.username, " ") \/ Contains(cfg.username, NUL)
    THEN "radiator.username must not contain spaces"
    ELSE IF Contains(cfg.password, " ") THEN "radiator.password must not contain spaces"
    ELSE IF Contains(cfg.password, NUL)
    THEN "radiator.password must not contain NUL characters"
    ELSE LET r == CheckMetrics(cfg.metrics, {})
         IN IF r.result # "Ok" THEN r.result
            ELSE CheckPerObject(cfg.per_object_metrics, {}, {})
check(cfg) ==
    IF Contains(cfg.username, " ") \/ Contains(cfg.username, NUL)
    THEN "radiator.username must not contain spaces"
    ELSE IF Contains(cfg.password, " ") THEN "radiator.password must not contain spaces"
    ELSE IF Contains(cfg.password, NUL)
    THEN "radiator.password must not contain NUL characters"
    ELSE LET r == CheckMetrics(cfg.metrics, {})
         IN IF r.result # "Ok" THEN r.result
            ELSE CheckPerObject(cfg.per_object_metrics, {}, r.known)

(* the configurations considered *)
NoLabels == EmptyMap
GlobalCounter ==
    MetricConfig(<<"m">>, "Counter", None, None, <<SampleConfig(NoLabels, <<"k1">>)>>)
ObjectGauge(name) ==
    MetricConfig(name, "Gauge", Some(<<"x">>), None,
                 <<SampleConfig(NoLabels, <<"k1">>),
                   SampleConfig(Insert(NoLabels, <<"n">>, <<"x">>), <<"k2">>)>>)
ObjectGaugeUniform(name) ==
    MetricConfig(name, "Gauge", None, None, <<SampleConfig(NoLabels, <<"k1">>)>>)

ConfigGlobalOnly == Config(<<"a">>, <<"b">>, <<GlobalCounter>>, <<>>)
ConfigOneKind ==
    Config(<<"a">>, <<"b">>, <<GlobalCounter>>,
           <<PerObjectMetricConfig(<<"P">>, <<"id">>, <<ObjectGaugeUniform(<<"a">>)>>)>>)
ConfigTwoKinds ==
    Config(<<"a">>, <<"b">>, <<GlobalCounter>>,
           <<PerObjectMetricConfig(<<"Q">>, <<"id">>, <<ObjectGaugeUniform(<<"b">>)>>),
             PerObjectMetricConfig(<<"P">>, <<"id">>, <<ObjectGaugeUniform(<<"a">>)>>)>>)
ConfigMixedLabels ==
    Config(<<"a">>, <<"b">>, <<GlobalCounter>>,
           <<PerObjectMetricConfig(<<"P">>, <<"id">>, <<ObjectGauge(<<"a">>)>>)>>)
ConfigEmptyUnit ==
    Config(<<"a">>, <<"b">>,
           <<MetricConfig(<<"m">>, "Counter", None, Some(<<>>),
                          <<SampleConfig(NoLabels, <<"k1">>)>>)>>, <<>>)
ConfigUnderscoreName ==
    Config(<<"a">>, <<"b">>,
           <<MetricConfig(<<"_", "m">>, "Counter", None, None,
                          <<SampleConfig(NoLabels, <<"k1">>)>>)>>, <<>>)
ConfigDuplicateName ==
    Config(<<"a">>, <<"b">>, <<GlobalCounter>>,
           <<PerObjectMetricConfig(<<"P">>, <<"id">>, <<ObjectGaugeUniform(<<"m">>)>>)>>)

ConfigLabelled ==
    Config(<<"a">>, <<"b">>, <<GlobalCounter>>,
           <<PerObjectMetricConfig(<<"P">>, <<"id">>,
                 <<MetricConfig(<<"a">>, "Gauge", None, None,
                                <<SampleConfig(Insert(NoLabels, <<"n">>, <<"x">>), <<"k1">>)>>)>>)>>)

Configs ==
    {ConfigNoMetrics, ConfigGlobalOnly, ConfigOneKind, ConfigTwoKinds, ConfigMixedLabels, ConfigEmptyUnit,
     ConfigUnderscoreName, ConfigDuplicateName, ConfigLabelled}

(* main: the process goes on only with a configuration that check accepts *)
AcceptedConfigs == {cfg \in Configs : check(cfg) = "Ok"}


(* ------------------------------------------------------------------ *)
(* handle_request: populating the registry                             *)
(* ------------------------------------------------------------------ *)

(* the label names of the samples of a metric, in the order of the two
   nested loops (BTreeMap keys ascend) *)
RECURSIVE SampleLabelNames(_)
SampleLabelNames(samples) ==
    IF samples = <<>> THEN <<>>
    ELSE Ascending(DOMAIN Head(samples).labels) \o SampleLabelNames(Tail(samples))

(* if !metric.has_label(label_name) { metric.add_label(label_name) } *)
RECURSIVE AddMissingLabels(_, _, _)
AddMissingLabels(db, name, labels) ==
    IF labels = <<>> THEN db
    ELSE AddMissingLabels(IF db.fault \/ HasLabel(db, name, Head(labels)) THEN db
                          ELSE AddLabel(db, name, Head(labels)),
                          name, Tail(labels))

(* get_or_insert, set_unit, set_help and the labels of the samples *)
DeclareMetric(db, metric_config) ==
    AddMissingLabels(
        SetHelp(SetUnit(GetOrInsert(db, metric_config.metric, metric_config.kind),
                        metric_config.metric, metric_config.unit),
                metric_config.metric, metric_config.help),
        metric_config.metric, SampleLabelNames(metric_config.samples))

(* the loop over the samples of a metric: a sample whose statistic is absent
   is skipped; extra holds the identifier label of a per-object metric *)
RECURSIVE AddSamples(_, _, _, _, _)
AddSamples(db, name, samples, stats, extra) ==
    IF samples = <<>> THEN db
    ELSE LET sample == Head(samples)
             all_labels == [l \in (DOMAIN sample.labels) \cup (DOMAIN extra) |->
                               IF l \in DOMAIN extra THEN extra[l] ELSE sample.labels[l]]
         IN AddSamples(IF sample.statistic \in DOMAIN stats
                       THEN AddSample(db, name, all_labels, stats[sample.statistic])
                       ELSE db,
                       name, Tail(samples), stats, extra)

(* the loop over config.metrics *)
RECURSIVE PopulateGlobal(_, _, _)
PopulateGlobal(db, metrics, stats) ==
    IF metrics = <<>> THEN db
    ELSE PopulateGlobal(
             AddSamples(DeclareMetric(db, Head(metrics)), Head(metrics).metric,
                        Head(metrics).samples, stats, EmptyMap),
             Tail(metrics), stats)

(* the loop over index_to_statistics.values(), visited in the given order *)
RECURSIVE AddObjectSamples(_, _, _, _, _)
AddObjectSamples(db, metric_config, identifier_label, index_to_stats, visit) ==
    IF visit = <<>> THEN db
    ELSE LET per_object_statistics == index_to_stats[Head(visit)]
         IN AddObjectSamples(
                AddSamples(db, metric_config.metric, metric_config.samples,
                           per_object_statistics.stats,
                           Insert(EmptyMap, identifier_label,
                                  per_object_statistics.identifier)),
                metric_config, identifier_label, index_to_stats, Tail(visit))

(* the loop over the metrics of one kind *)
RECURSIVE PopulateKind(_, _, _, _, _)
PopulateKind(db, metrics, identifier_label, index_to_stats, visit) ==
    IF metrics = <<>> THEN db
    ELSE LET declared == DeclareMetric(db, Head(metrics))
             labelled == AddLabel(declared, Head(metrics).metric, identifier_label)
         IN PopulateKind(
                AddObjectSamples(labelled, Head(metrics), identifier_label,
                                 index_to_stats, visit),
                Tail(metrics), identifier_label, index_to_stats, visit)

(* the loop over config.per_object_metrics; order is the order in which a
   HashMap yields the indices it holds *)
RECURSIVE PopulatePerObject(_, _, _, _)
PopulatePerObject(db, per_object_metrics, type_to_stats, order) ==
    IF per_object_metrics = <<>> THEN db
    ELSE LET pom == Head(per_object_metrics)
             InKind(ix) == ix \in DOMAIN type_to_stats[pom.kind]
         IN PopulatePerObject(
                IF pom.kind \in DOMAIN type_to_stats
                THEN PopulateKind(db, pom.metrics, pom.identifier_label,
                                  type_to_stats[pom.kind], SelectSeq(order, InKind))
                ELSE db,
                Tail(per_object_metrics), type_to_stats, order)

Populate(cfg, stats, type_to_stats, order) ==
    PopulatePerObject(PopulateGlobal(NewDatabase, cfg.metrics, stats),
                      cfg.per_object_metrics, type_to_stats, order)


(* ------------------------------------------------------------------ *)
(* handle_request                                                      *)
(* ------------------------------------------------------------------ *)

(* objects of one kind past which the backend reports NOSUCHOBJECT *)
MaxIndex == 2

MIME_TYPE == "application/openmetrics-text; version=1.0.0; charset=utf-8"
NOSUCHOBJECT == <<"NOSUCHOBJECT">>

(* the commands: b"STATS .", format!("DESCRIBE {}.{}", kind, i),
   format!("STATS {}.{}", kind, index) *)
StatsGlobalCommand == <<"STATS", " ", ".">>
DescribeCommand(kind, i) == <<"DESCRIBE", " ">> \o kind \o <<".", ToString(i)>>
StatsCommand(kind, i) == <<"STATS", " ">> \o kind \o <<".", ToString(i)>>

(* what communicate hands back: Ok with a frame, one of its errors, or the
   panic of connect_to_radiator when the Reader Task is gone *)
Frames ==
    { <<"STATS", " ", ".", LF, "k1", ":", "1">>,
      <<"STATS", " ", ".", LF, "k1", ":", "2", SOH, "k2", ":", "3", ".", "5", SOH, "bad", SOH,
        "k1", ":", "3", SOH, "k2", ":", "x">>,
      <<"STATS", " ", ".">>,
      <<"STATS", " ", ".", LF, "k1", ":", XFF>>,
      <<XFF, LF, "k1", ":", "1">>,
      NOSUCHOBJECT,
      <<"DESCRIBE", LF, "NOSUCHOBJECT">>,
      <<"DESCRIBE", LF, "Name", ":", "string", ":", "x", SOH,
        "Identifier", ":", "string", ":", "a">>,
      <<"DESCRIBE", LF, "Identifier", ":", "string", ":", "b">>,
      <<"DESCRIBE", LF, "Identifier", ":", "integer", ":", "1">> }
Errors == {"Io", "InvalidCredentials", "UnexpectedLoginResponse", "ReaderGone"}
Results ==
    [kind : {"Ok"}, frame : Frames] \cup [kind : Errors \cup {"Panic"}, frame : {<<>>}]

(* how a call ended, from what came back alone *)
HowEnded(command, r) ==
    IF r.kind = "Panic" THEN "panicked"
    ELSE IF r.kind # "Ok" THEN "failed"
    ELSE IF /\ command[1] = "STATS"
            /\ ~\E k \in 1..Len(r.frame) :
                   /\ r.frame[k] = LF
                   /\ \A j \in 1..(k - 1) : r.frame[j] # LF
                   /\ \A j \in (k + 1)..Len(r.frame) : r.frame[j] # XFF
    THEN "undecodable"
    ELSE "ok"
Answered(command, r) == Append(answers, [command |-> command, ended |-> HowEnded(command, r)])

(* the responses *)
return_500 ==
    [status |-> 500, content_type |-> "text/plain; charset=utf-8", allow |-> "",
     text |-> "internal server error", document |-> NoDocument]
MethodNotAllowed ==
    [status |-> 405, content_type |-> "text/plain; charset=utf-8", allow |-> "GET",
     text |-> "HTTP method must be GET", document |-> NoDocument]
MetricsResponse(db) ==
    [status |-> 200, content_type |-> MIME_TYPE, allow |-> "", text |-> "",
     document |-> [some |-> TRUE, metrics |-> db.metrics]]

(* the orders in which a HashMap may yield the indices *)
Indices == 0..(MaxIndex - 1)
Orders == {o \in [1..MaxIndex -> Indices] : \A a, b \in 1..MaxIndex : o[a] = o[b] => a = b}

(* the request ends with return_500() *)
Return500 ==
    /\ spc' = "done"
    /\ reply' = return_500
    /\ UNCHANGED <<statistics, kindIx, index, index_to_identifier, pending,
                   index_to_statistics, object_type_to_statistics, described>>

(* the task of the request unwinds: no response is returned *)
Unwind ==
    /\ spc' = "aborted"
    /\ UNCHANGED <<reply, statistics, kindIx, index, index_to_identifier, pending,
                   index_to_statistics, object_type_to_statistics, described>>

(* the top of the loop over config.per_object_metrics for its k-th element,
   or past its end: populate the registry, write it, respond *)
EnterKind(k, stats, type_to_stats) ==
    /\ kindIx' = k
    /\ index' = 0
    /\ index_to_identifier' = EmptyMap
    /\ pending' = {}
    /\ index_to_statistics' = EmptyMap
    /\ described' = <<>>
    /\ IF k <= Len(config.per_object_metrics)
       THEN /\ spc' = "describe"
            /\ reply' = reply
       ELSE \E order \in Orders :
               LET db == Populate(config, stats, type_to_stats, order)
               IN IF db.fault
                  THEN spc' = "faulted" /\ reply' = reply
                  ELSE spc' = "done" /\ reply' = MetricsResponse(db)

(* request.method() != Method::GET *)
MethodAllowedAlways(method) == TRUE
MethodAllowed(method) == method = "GET"

(* a request arrives: the method check *)
ScrapeRequest(method) ==
    /\ spc = "idle"
    /\ request_method' = method
    /\ IF ~MethodAllowed(method)
       THEN spc' = "done" /\ reply' = MethodNotAllowed
       ELSE spc' = "global" /\ reply' = reply
    /\ UNCHANGED <<config, statistics, kindIx, index, index_to_identifier, pending,
                   index_to_statistics, object_type_to_statistics, answers, described,
                   stats_log, radiatorVars, registryVars, functionVars>>

(* communicate(b"STATS .") is over, up to the next communicate or the end *)
ScrapeGlobalStats(r) ==
    /\ spc = "global"
    /\ answers' = Answered(StatsGlobalCommand, r)
    /\ IF r.kind = "Panic" THEN Unwind
       ELSE IF r.kind # "Ok" THEN Return500
       ELSE IF ~decode_stats(r.frame).some THEN Return500
       ELSE /\ statistics' = decode_stats(r.frame).stats
            /\ object_type_to_statistics' = EmptyMap
            /\ EnterKind(1, decode_stats(r.frame).stats, EmptyMap)
    /\ UNCHANGED <<config, request_method, stats_log, radiatorVars, registryVars, functionVars>>

(* what a DESCRIBE call that returned Ok was about and what came back: the
   index, whether the frame as a whole is the marker, whether the payload
   (what follows the first newline) is the marker, and the identifier *)
Described(i, frame) ==
    [index |-> i,
     frame_is_marker |-> frame = NOSUCHOBJECT,
     payload_is_marker |-> HasDelimiter(frame, LF) /\ After(frame, LF) = NOSUCHOBJECT,
     identifier |-> extract_identifier(frame)]

(* communicate(DESCRIBE kind.i) is over, up to the next communicate or the end *)
ScrapeDescribe(r) ==
    /\ spc = "describe"
    /\ index < MaxIndex \/ r.kind # "Ok" \/ r.frame = NOSUCHOBJECT
    /\ LET pom == config.per_object_metrics[kindIx]
           identifier == extract_identifier(r.frame)
           none == Insert(object_type_to_statistics, pom.kind, EmptyMap)
       IN /\ answers' = Answered(DescribeCommand(pom.kind, index), r)
          /\ IF r.kind = "Panic" THEN Unwind
             ELSE IF r.kind # "Ok" THEN Return500
             ELSE IF r.frame = NOSUCHOBJECT
             THEN IF index_to_identifier = EmptyMap
                  THEN /\ object_type_to_statistics' = none
                       /\ statistics' = statistics
                       /\ EnterKind(kindIx + 1, statistics, none)
                  ELSE /\ spc' = "stats"
                       /\ pending' = DOMAIN index_to_identifier
                       /\ described' = Append(described, Described(index, r.frame))
                       /\ UNCHANGED <<reply, statistics, kindIx, index, index_to_identifier,
                                      index_to_statistics, object_type_to_statistics>>
             ELSE /\ index' = index + 1
                  /\ described' = Append(described, Described(index, r.frame))
                  /\ index_to_identifier' =
                         IF identifier.some
                         THEN Insert(index_to_identifier, index, identifier.id)
                         ELSE index_to_identifier
                  /\ UNCHANGED <<spc, reply, statistics, kindIx, pending,
                                 index_to_statistics, object_type_to_statistics>>
    /\ UNCHANGED <<config, request_method, stats_log, radiatorVars, registryVars, functionVars>>

(* what a per-object STATS call was about and what its response decodes to
   (nothing if the call failed), with what the DESCRIBE calls of the kind had shown
   by then: the identifier found at the index, the indices with an
   identifier, and whether the last DESCRIBE response was the marker *)
StatsCalled(kind, ix, frame) ==
    [kind |-> kind, index |-> ix, decoded |-> decode_stats(frame),
     found |-> IF ix + 1 <= Len(described) THEN described[ix + 1].identifier
               ELSE [some |-> FALSE, id |-> <<>>],
     identified |-> {k \in 0..(Len(described) - 1) : described[k + 1].identifier.some},
     after_marker |-> described # <<>> /\ described[Len(described)].frame_is_marker]

(* the indices the loop over index_to_identifier has yet to visit *)
RemainingUnchanged(indices, ix) == indices
Remaining(indices, ix) == indices \ {ix}

(* communicate(STATS kind.index) is over, up to the next communicate or the end *)
ScrapeObjectStats(ix, r) ==
    /\ spc = "stats"
    /\ ix \in pending
    /\ LET pom == config.per_object_metrics[kindIx]
           stats == decode_stats(r.frame)
           inserted == Insert(index_to_statistics, ix,
                              [identifier |-> index_to_identifier[ix], stats |-> stats.stats])
           all == Insert(object_type_to_statistics, pom.kind, inserted)
       IN /\ answers' = Answered(StatsCommand(pom.kind, ix), r)
          /\ stats_log' = Append(stats_log, StatsCalled(pom.kind, ix, r.frame))
          /\ IF r.kind = "Panic" THEN Unwind
             ELSE IF r.kind # "Ok" THEN Return500
             ELSE IF ~stats.some THEN Return500
             ELSE IF Remaining(pending, ix) = {}
             THEN /\ object_type_to_statistics' = all
                  /\ statistics' = statistics
                  /\ EnterKind(kindIx + 1, statistics, all)
             ELSE /\ pending' = Remaining(pending, ix)
                  /\ index_to_statistics' = inserted
                  /\ UNCHANGED <<spc, reply, statistics, kindIx, index, index_to_identifier,
                                 object_type_to_statistics, described>>
    /\ UNCHANGED <<config, request_method, radiatorVars, registryVars, functionVars>>

Methods == {"GET", "POST", "HEAD"}

ScrapeInit ==
    /\ RadiatorStarted
    /\ ScrapeIdle
    /\ RegistryIdle
    /\ FunctionsIdle
    /\ config \in AcceptedConfigs

ScrapeNext ==
    \/ \E method \in Methods : ScrapeRequest(method)
    \/ \E r \in Results : ScrapeGlobalStats(r)
    \/ \E r \in Results : ScrapeDescribe(r)
    \/ \E ix \in Indices, r \in Results : ScrapeObjectStats(ix, r)

SpecScrape == ScrapeInit /\ [][ScrapeNext]_vars

(* ------------------------------------------------------------------ *)
(* Properties of a scrape                                              *)
(* ------------------------------------------------------------------ *)
AllEndedOk == \A k \in 1..Len(answers) : answers[k].ended = "ok"
SomeFailed == \E k \in 1..Len(answers) : answers[k].ended \in {"failed", "undecodable"}
SomePanicked == \E k \in 1..Len(answers) : answers[k].ended = "panicked"

(* what holds of the calls that return: 200 only after calls that all ended
   well, 500 and no document after an error or an undecodable STATS response *)
ReturnedFailureAnswers500 ==
    /\ reply.status = 200 => AllEndedOk /\ reply.document.some
    /\ SomeFailed => reply = return_500 /\ spc = "done"
    /\ reply.status # 200 => reply.document = NoDocument

(* C10: a scrape answers 200 with a metrics document only if every command
   it issued returned Ok and every STATS response had a newline and a payload
   of valid UTF-8; if a communicate call fails or a STATS response does not
   decode, the scrape answers 500 with the generic plain-text body, and no
   part of a metrics document is sent. *)
C10_FailureAnswers500 ==
    /\ reply.status = 200 => AllEndedOk /\ reply.document.some
    /\ ~AllEndedOk => reply = return_500
    /\ reply.status # 200 => reply.document = NoDocument


(* C11: a request whose method is not GET is answered with status 405 and
   the header Allow: GET, and handling it issues no backend command: no
   communicate call, no lock acquisition, no write on the admin connection. *)
C11_NonGetAnswers405 ==
    request_method \notin {"none", "GET"} =>
        /\ spc = "done"
        /\ reply.status = 405
        /\ reply.allow = "GET"
        /\ reply.document = NoDocument
        /\ answers = <<>>
        /\ RadiatorStarted
C11_Witness ==
    /\ request_method = "POST"
    /\ spc = "done"
    /\ reply = MethodNotAllowed


(* the indices described so far, in increasing order without gaps, and the
   map of those that carried an Identifier of type string *)
DescribedInOrder == \A k \in 1..Len(described) : described[k].index = k - 1
IdentifiedSoFar ==
    LET with == {k \in 1..Len(described) : described[k].identifier.some}
    IN [i \in {described[k].index : k \in with} |-> described[i + 1].identifier.id]

(* the enumeration as the code runs it: the marker is a frame that is
   NOSUCHOBJECT as a whole *)
EnumerationStopsAtFrameMarker ==
    /\ DescribedInOrder
    /\ \A k \in 1..Len(described) : \A j \in 1..(k - 1) : ~described[j].frame_is_marker
    /\ spc = "describe" => index = Len(described)
    /\ spc = "stats" => described[Len(described)].frame_is_marker
    /\ spc \in {"describe", "stats"} => index_to_identifier = IdentifiedSoFar

(* C12: for a configured kind DESCRIBE kind.i is issued for i = 0, 1, 2, ...
   in increasing order without gaps, no DESCRIBE is issued for an index after
   the first one whose response payload is exactly NOSUCHOBJECT, and the
   index-to-identifier map holds exactly the indices before the marker whose
   response carried an Identifier of type string. *)
C12_EnumerationStopsAtMarker ==
    /\ DescribedInOrder
    /\ \A k \in 1..Len(described) : \A j \in 1..(k - 1) : ~described[j].payload_is_marker
    /\ spc \in {"describe", "stats"} => index_to_identifier = IdentifiedSoFar


(* C13: schema violations of the configuration never surface while a
   scrape is handled: with a configuration that check accepted, no scrape
   hits a registry fault (an assertion or panic of Metric::new, set_unit,
   set_help, add_label or add_sample), whatever the backend responds. *)
C13_NoRegistryFault ==
    spc # "faulted"


(* the samples a document must hold, from what was decoded: for a metric
   of config.metrics one sample per SampleConfig whose statistic is among the
   global statistics; for a metric of a kind one sample per object that has
   an identifier and per SampleConfig whose statistic is among the object's *)
SampleKey(labels) == LabelValues(Ascending(DOMAIN labels), labels)
GlobalSampleKeys(metric_config) ==
    {SampleKey(metric_config.samples[j].labels) :
        j \in {j \in 1..Len(metric_config.samples) :
                  metric_config.samples[j].statistic \in DOMAIN statistics}}
ObjectSampleKeys(pom, metric_config) ==
    LET objects == object_type_to_statistics[pom.kind]
    IN {SampleKey(Insert(metric_config.samples[p[2]].labels, pom.identifier_label,
                         objects[p[1]].identifier)) :
           p \in {p \in (DOMAIN objects) \X (1..Len(metric_config.samples)) :
                     metric_config.samples[p[2]].statistic \in DOMAIN objects[p[1]].stats}}
SamplesAsDecoded ==
    /\ \A g \in 1..Len(config.metrics) :
          LET metric_config == config.metrics[g]
          IN /\ metric_config.metric \in DOMAIN reply.document.metrics
             /\ DOMAIN reply.document.metrics[metric_config.metric].samples
                    = GlobalSampleKeys(metric_config)
    /\ \A k \in 1..Len(config.per_object_metrics) :
          \A m \in 1..Len(config.per_object_metrics[k].metrics) :
             LET pom == config.per_object_metrics[k]
                 metric_config == pom.metrics[m]
             IN /\ pom.kind \in DOMAIN object_type_to_statistics
                /\ metric_config.metric \in DOMAIN reply.document.metrics
                /\ DOMAIN reply.document.metrics[metric_config.metric].samples
                       = ObjectSampleKeys(pom, metric_config)

(* a scrape all of whose commands returned Ok and decoded, with a statistic
   that was dropped or an object that was skipped *)
SomeObjectSkipped ==
    \E kind \in DOMAIN object_type_to_statistics :
        DOMAIN object_type_to_statistics[kind] # Indices
SomeStatisticDropped ==
    \/ <<"k2">> \notin DOMAIN statistics
    \/ \E kind \in DOMAIN object_type_to_statistics :
          \E ix \in DOMAIN object_type_to_statistics[kind] :
             <<"k2">> \notin DOMAIN object_type_to_statistics[kind][ix].stats

(* what holds of the scrapes that reach the response: after commands that
   all returned Ok and decoded the answer is 200 and the document holds
   exactly the samples of the statistics and objects that were decoded *)
AnomaliesLeave200 ==
    (request_method = "GET" /\ spc = "done" /\ AllEndedOk) =>
        /\ reply.status = 200
        /\ SamplesAsDecoded

(* C14: per-item decode anomalies never fail the whole scrape: when all
   commands succeed and every response decodes, an entry without a colon or
   with an unparsable value, a duplicate key or a DESCRIBE response without
   identifier leaves the scrape answering 200, with only the offending
   statistic or object absent and all other samples present. *)
C14_AnomaliesLeave200 ==
    (request_method = "GET" /\ spc \in {"done", "faulted"} /\ AllEndedOk) =>
        /\ reply.status = 200
        /\ SamplesAsDecoded


(***************************************************************************)
(* Part 3 (specification SpecRegistry): a MetricDatabase of                *)
(* src/src/openmetrics.rs on its own, under any sequence of calls of       *)
(* get_or_insert, set_unit, set_help, add_label and add_sample. A call     *)
(* that panics ends the sequence.                                          *)
(***************************************************************************)
MaxRegistryCalls == 6

RegistryNames == {<<"m">>, <<"a">>, <<"1">>}
RegistryKinds == {"Counter", "Gauge"}
RegistryUnits == {None, Some(<<"x">>), Some(<<>>)}
RegistryLabels == {<<"a">>, <<"b">>, <<"1">>}
RegistryLabelValues == {<<"x">>, <<"y">>}
RegistryLabelMaps ==
    UNION {[names -> RegistryLabelValues] : names \in SUBSET {<<"a">>, <<"b">>}}
RegistryValues == {IntegerNumber(<<"1">>), FloatNumber(<<"3", ".", "5">>)}

(* the record of a call on a metric: its arguments, the label names and the
   samples of the metric before it, and whether it changed the registry *)
CallOf(op, name, labels, after) ==
    [op |-> op, name |-> name, labels |-> labels,
     names_before |-> IF name \in DOMAIN registry.metrics
                      THEN registry.metrics[name].label_names ELSE {},
     samples_before |-> IF name \in DOMAIN registry.metrics
                        THEN registry.metrics[name].samples ELSE EmptyMap,
     changed |-> after.metrics # registry.metrics]

CanCall == ~registry.fault /\ registry_calls < MaxRegistryCalls
NewNames(after) == (DOMAIN after.metrics) \ (DOMAIN registry.metrics)
NewKeys(name, after) ==
    IF name \in DOMAIN after.metrics
    THEN {key \in DOMAIN after.metrics[name].samples :
             name \in DOMAIN registry.metrics => key \notin DOMAIN registry.metrics[name].samples}
    ELSE {}
Called(op, name, labels, after) ==
    /\ registry' = after
    /\ last_call' = CallOf(op, name, labels, after)
    /\ registry_calls' = registry_calls + 1
    /\ insert_order' = insert_order \o Ascending(NewNames(after))
    /\ sample_order' = [n \in DOMAIN after.metrics |->
                      (IF n \in DOMAIN sample_order THEN sample_order[n] ELSE <<>>)
                      \o (IF n = name THEN AscendingTuples(NewKeys(n, after)) ELSE <<>>)]

CallGetOrInsert(name, kind) ==
    /\ CanCall
    /\ Called("get_or_insert", name, EmptyMap, GetOrInsert(registry, name, kind))
    /\ UNCHANGED <<first_labels, written, last_added, radiatorVars, scrapeVars, functionVars>>

CallSetUnit(name, unit) ==
    /\ CanCall
    /\ name \in DOMAIN registry.metrics
    /\ Called("set_unit", name, EmptyMap, SetUnit(registry, name, unit))
    /\ UNCHANGED <<first_labels, written, last_added, radiatorVars, scrapeVars, functionVars>>

CallSetHelp(name, help) ==
    /\ CanCall
    /\ name \in DOMAIN registry.metrics
    /\ Called("set_help", name, EmptyMap, SetHelp(registry, name, help))
    /\ UNCHANGED <<first_labels, written, last_added, radiatorVars, scrapeVars, functionVars>>

CallAddLabel(name, label) ==
    /\ CanCall
    /\ name \in DOMAIN registry.metrics
    /\ Called("add_label", name, Insert(EmptyMap, label, <<>>),
              AddLabel(registry, name, label))
    /\ UNCHANGED <<first_labels, written, last_added, radiatorVars, scrapeVars, functionVars>>

CallAddSample(name, labels, value) ==
    /\ CanCall
    /\ name \in DOMAIN registry.metrics
    /\ LET after == AddSample(registry, name, labels, value)
       IN /\ Called("add_sample", name, labels, after)
          /\ first_labels' =
                 IF after.fault \/ name \in DOMAIN first_labels THEN first_labels
                 ELSE Insert(first_labels, name, after.metrics[name].label_names)
          /\ last_added' =
                 IF after.fault THEN last_added
                 ELSE Insert(last_added, name,
                             Insert(IF name \in DOMAIN last_added THEN last_added[name]
                                    ELSE EmptyMap, labels, value))
    /\ UNCHANGED <<written, radiatorVars, scrapeVars, functionVars>>

(* MetricKind::as_openmetrics, MetricKind::openmetrics_metric_suffix *)
as_openmetrics(kind) == IF kind = "Counter" THEN "counter" ELSE "gauge"
openmetrics_metric_suffix(kind) == IF kind = "Counter" THEN <<"_total">> ELSE <<>>

(* escape_openmetrics_into *)
RECURSIVE escape_openmetrics_into(_)
escape_openmetrics_into(source) ==
    IF source = <<>> THEN <<>>
    ELSE (IF Head(source) \in {"\\", "\""} THEN <<"\\", Head(source)>>
          ELSE IF Head(source) = LF THEN <<"\\", "n">>
          ELSE <<Head(source)>>)
         \o escape_openmetrics_into(Tail(source))

(* Display of Number: the decimal digits of an integer; the shortest decimal
   notation of a float *)
RECURSIVE NaturalDigits(_)
NaturalDigits(n) ==
    IF n < 10 THEN <<ToString(n)>> ELSE NaturalDigits(n \div 10) \o <<ToString(n % 10)>>
RECURSIVE DropTrailingZeros(_)
DropTrailingZeros(text) ==
    IF text = <<>> THEN text
    ELSE IF Last(text) = "0" THEN DropTrailingZeros(Pop(text))
    ELSE IF Last(text) = "." THEN Pop(text)
    ELSE text
DisplayNumber(value) ==
    IF value.type = "Integer"
    THEN (IF value.int < 0 THEN <<"-">> \o NaturalDigits(0 - value.int)
          ELSE NaturalDigits(value.int))
    ELSE LET sign == IF value.text[1] = "-" THEN <<"-">> ELSE <<>>
             digits == Unsigned(value.text)
         IN sign \o (IF Contains(digits, ".") THEN DropTrailingZeros(digits) ELSE digits)

(* Metric::write: the label block of a sample *)
RECURSIVE WriteLabels(_, _)
WriteLabels(label_names, label_values) ==
    IF label_names = <<>> \/ label_values = <<>> THEN <<>>
    ELSE Head(label_names) \o <<"=", "\"">> \o escape_openmetrics_into(Head(label_values))
         \o <<"\"">>
         \o (IF Len(label_names) > 1 /\ Len(label_values) > 1 THEN <<",">> ELSE <<>>)
         \o WriteLabels(Tail(label_names), Tail(label_values))

(* Metric::write: the line of one sample *)
WriteSample(metric, label_values) ==
    [name |-> metric.name, what |-> "sample", key |-> label_values,
     text |-> metric.name \o openmetrics_metric_suffix(metric.kind)
              \o (IF metric.label_names # {}
                  THEN <<"{">> \o WriteLabels(Ascending(metric.label_names), label_values)
                       \o <<"}">>
                  ELSE <<>>)
              \o <<" ">> \o DisplayNumber(metric.samples[label_values]) \o <<LF>>]

RECURSIVE WriteSamples(_, _)
WriteSamples(metric, keys) ==
    IF keys = <<>> THEN <<>>
    ELSE <<WriteSample(metric, Head(keys))>> \o WriteSamples(metric, Tail(keys))

(* Metric::write: the lines of a metric, its samples in the given order *)
WriteMetric(metric, keys) ==
    <<[name |-> metric.name, what |-> "type", key |-> <<>>,
       text |-> <<"# TYPE ">> \o metric.name \o <<" ", as_openmetrics(metric.kind), LF>>]>>
    \o (IF metric.unit.some
        THEN <<[name |-> metric.name, what |-> "unit", key |-> <<>>,
                text |-> <<"# UNIT ">> \o metric.name \o <<" ">> \o metric.unit.v \o <<LF>>]>>
        ELSE <<>>)
    \o (IF metric.help.some
        THEN <<[name |-> metric.name, what |-> "help", key |-> <<>>,
                text |-> <<"# HELP ">> \o metric.name \o <<" ">>
                         \o escape_openmetrics_into(metric.help.v) \o <<LF>>]>>
        ELSE <<>>)
    \o WriteSamples(metric, keys)

(* the order in which a BTreeMap yields what was inserted in the given order *)
Range(order) == {order[k] : k \in 1..Len(order)}
MetricOrderAsInserted(order) == order
MetricOrder(order) == Ascending(Range(order))
SampleOrder(order) == AscendingTuples(Range(order))

(* MetricDatabase::write: the lines of the metrics *)
RECURSIVE WriteMetrics(_, _, _)
WriteMetrics(metrics, names, keys) ==
    IF names = <<>> THEN <<>>
    ELSE WriteMetric(metrics[Head(names)], SampleOrder(keys[Head(names)]))
         \o WriteMetrics(metrics, Tail(names), keys)
WriteDatabase(metrics, names, keys) == WriteMetrics(metrics, MetricOrder(names), keys)

(* the assertion of Metric::write *)
WriteAsserts(metrics) ==
    \A name \in DOMAIN metrics : \A key \in DOMAIN metrics[name].samples :
        Len(key) = Cardinality(metrics[name].label_names)

CallWrite ==
    /\ CanCall
    /\ registry_calls' = registry_calls + 1
    /\ last_call' = CallOf("write", <<>>, EmptyMap, registry)
    /\ IF WriteAsserts(registry.metrics)
       THEN /\ written' = Append(written,
                                 [metrics |-> registry.metrics,
                                  lines |-> WriteDatabase(registry.metrics, insert_order,
                                                          sample_order)])
            /\ registry' = registry
       ELSE /\ written' = written
            /\ registry' = Fault(registry)
    /\ UNCHANGED <<first_labels, insert_order, sample_order, last_added, radiatorVars, scrapeVars,
                   functionVars>>

RegistryInit ==
    /\ RadiatorStarted
    /\ ScrapeIdle
    /\ RegistryIdle
    /\ FunctionsIdle
    /\ config = ConfigNoMetrics

RegistryNext ==
    \/ \E name \in RegistryNames, kind \in RegistryKinds : CallGetOrInsert(name, kind)
    \/ \E name \in RegistryNames, unit \in RegistryUnits : CallSetUnit(name, unit)
    \/ \E name \in RegistryNames, help \in RegistryUnits : CallSetHelp(name, help)
    \/ \E name \in RegistryNames, label \in RegistryLabels : CallAddLabel(name, label)
    \/ \E name \in RegistryNames, labels \in RegistryLabelMaps, value \in RegistryValues :
          CallAddSample(name, labels, value)
    \/ CallWrite

SpecRegistry == RegistryInit /\ [][RegistryNext]_vars

(* C15: every sample stored in a Metric supplies exactly the metric's label
   set: each stored sample has exactly one value per label name; add_sample
   with a missing or an unknown label faults without storing a sample;
   add_label faults once a sample has been recorded, so that the label names
   at the first sample are the label names at every later sample. *)
C15_SamplesSupplyLabelSet ==
    /\ \A name \in DOMAIN registry.metrics :
          /\ \A key \in DOMAIN registry.metrics[name].samples :
                DOMAIN key = 1..Cardinality(registry.metrics[name].label_names)
          /\ name \in DOMAIN first_labels =>
                registry.metrics[name].label_names = first_labels[name]
    /\ (last_call.op = "add_sample" /\ DOMAIN last_call.labels # last_call.names_before) =>
          registry.fault /\ ~last_call.changed
    /\ (last_call.op = "add_sample" /\ DOMAIN last_call.labels = last_call.names_before) =>
          /\ ~registry.fault
          /\ SampleKey(last_call.labels) \in DOMAIN registry.metrics[last_call.name].samples
    /\ (last_call.op = "add_label" /\ last_call.samples_before # EmptyMap) =>
          registry.fault /\ ~last_call.changed
C15_Witness ==
    /\ last_call.op = "add_label"
    /\ last_call.samples_before # EmptyMap
    /\ registry.fault
    /\ \E key \in DOMAIN registry.metrics[last_call.name].samples : Len(key) = 2


(* the metric names of the TYPE lines, and the sample keys of a metric, in
   the order in which the lines were written *)
IsTypeLine(line) == line.what = "type"
RECURSIVE NamesOf(_)
NamesOf(lines) ==
    IF lines = <<>> THEN <<>> ELSE <<Head(lines).name>> \o NamesOf(Tail(lines))
RECURSIVE KeysOf(_, _)
KeysOf(lines, name) ==
    IF lines = <<>> THEN <<>>
    ELSE (IF Head(lines).what = "sample" /\ Head(lines).name = name
          THEN <<Head(lines).key>> ELSE <<>>)
         \o KeysOf(Tail(lines), name)
StrictlyAscending(names) ==
    \A k \in 1..(Len(names) - 1) : StrLess(names[k], names[k + 1])
TuplesStrictlyAscending(keys) ==
    \A k \in 1..(Len(keys) - 1) : TupleLess(keys[k], keys[k + 1])

(* C16: serialization is deterministic and independent of the insertion
   order: the metrics are emitted in lexical order of their names and the
   samples of a metric in lexical order of their label-value tuples;
   encoding the same registry twice, or two registries holding the same
   metrics and samples inserted in different orders, gives the same output. *)
C16_WriteIsOrdered ==
    \A w \in 1..Len(written) :
        LET lines == written[w].lines
            metrics == written[w].metrics
            names == NamesOf(SelectSeq(lines, IsTypeLine))
        IN /\ Range(names) = DOMAIN metrics
           /\ StrictlyAscending(names)
           /\ \A k \in 1..(Len(lines) - 1) :
                 lines[k].name = lines[k + 1].name \/ StrLess(lines[k].name, lines[k + 1].name)
           /\ \A name \in DOMAIN metrics :
                 /\ Range(KeysOf(lines, name)) = DOMAIN metrics[name].samples
                 /\ TuplesStrictlyAscending(KeysOf(lines, name))
           /\ \A v \in 1..Len(written) :
                 written[v].metrics = metrics => written[v].lines = lines
           /\ lines = WriteMetrics(metrics, Ascending(DOMAIN metrics),
                                   [name \in DOMAIN metrics |->
                                       AscendingTuples(DOMAIN metrics[name].samples)])
C16_Witness ==
    /\ Len(written) = 1
    /\ Len(insert_order) = 2
    /\ StrLess(insert_order[2], insert_order[1])
    /\ \E name \in DOMAIN sample_order :
          /\ Len(sample_order[name]) = 2
          /\ TupleLess(sample_order[name][2], sample_order[name][1])


(***************************************************************************)
(* Part 4 (specification SpecCheck): the startup validation on its own:    *)
(* main loads a configuration and hands it to check (config.rs), which     *)
(* accepts it or names the first error.                                    *)
(***************************************************************************)
MaxMetrics == 2
MaxKinds == 2

(* all sequences over S of length at most n *)
SeqsUpTo(S, n) == UNION {[1..k -> S] : k \in 0..n}

(* a metric with one sample without labels *)
PlainMetric(name, unit) ==
    MetricConfig(name, "Counter", None, unit, <<SampleConfig(NoLabels, <<"k1">>)>>)

(* names and units around the grammar: starting with a letter, an
   underscore, a colon, a digit or a dash, and empty *)
CheckNames ==
    {<<"m">>, <<"m", "1">>, <<"m", "_", ":">>, <<"_">>, <<"_", "m">>, <<":">>, <<":", "m">>,
     <<"1">>, <<"1", "m">>, <<"-">>, <<"m", "-">>, <<>>}
CheckUnits ==
    {None, Some(<<>>), Some(<<"m">>), Some(<<"1">>), Some(<<"_", ":">>), Some(<<"-">>),
     Some(<<"m", "-">>)}

(* configurations of one metric, global or of a kind *)
GrammarConfigs ==
    UNION {{Config(<<"a">>, <<"b">>, <<PlainMetric(name, unit)>>, <<>>),
            Config(<<"a">>, <<"b">>, <<>>,
                   <<PerObjectMetricConfig(<<"P">>, <<"id">>, <<PlainMetric(name, unit)>>)>>),
            Config(<<"a">>, <<"b">>, <<PlainMetric(<<"a">>, None)>>,
                   <<PerObjectMetricConfig(<<"P">>, <<"id">>, <<PlainMetric(name, unit)>>)>>)} :
           name \in CheckNames, unit \in CheckUnits}

(* configurations of up to MaxMetrics global metrics and up to MaxKinds
   per-object entries of up to MaxMetrics metrics, the names and the kinds
   drawn with repetition *)
StructureNames == {<<"m">>, <<"a">>, <<"b">>}
StructureKinds == {<<"P">>, <<"Q">>}
StructureMetrics == {PlainMetric(name, None) : name \in StructureNames}
StructureConfigs ==
    {Config(<<"a">>, <<"b">>, metrics, per_object) :
        metrics \in SeqsUpTo(StructureMetrics, MaxMetrics),
        per_object \in SeqsUpTo({PerObjectMetricConfig(kind, <<"id">>, ms) :
                                    kind \in StructureKinds,
                                    ms \in SeqsUpTo(StructureMetrics, MaxMetrics)}, MaxKinds)}

(* configurations with an error in another field, the metric names and
   units valid or not *)
LabelledMetric(name, key, statistic) ==
    MetricConfig(name, "Gauge", None, None,
                 <<SampleConfig(Insert(NoLabels, key, <<"x">>), statistic)>>)
ElsewhereConfigs ==
    UNION {{Config(<<"a", " ">>, <<"b">>, <<PlainMetric(name, None)>>, <<>>),
            Config(<<"a", NUL>>, <<"b">>, <<PlainMetric(name, None)>>, <<>>),
            Config(<<"a">>, <<" ", "b">>, <<PlainMetric(name, None)>>, <<>>),
            Config(<<"a">>, <<"b", NUL>>, <<PlainMetric(name, None)>>, <<>>),
            Config(<<"a">>, <<"b">>, <<LabelledMetric(name, <<"n">>, <<"k1">>)>>, <<>>),
            Config(<<"a">>, <<"b">>, <<LabelledMetric(name, <<"_", "1">>, <<"k1">>)>>, <<>>),
            Config(<<"a">>, <<"b">>, <<LabelledMetric(name, <<"n">>, <<"k1", ":", "k2">>)>>, <<>>),
            Config(<<"a">>, <<"b">>, <<LabelledMetric(name, <<>>, <<"k1">>)>>, <<>>),
            Config(<<"a">>, <<"b">>, <<LabelledMetric(name, <<"1">>, <<"k1">>)>>, <<>>),
            Config(<<"a">>, <<"b">>, <<LabelledMetric(name, <<"n", ":">>, <<"k1">>)>>, <<>>)} :
           name \in {<<"m">>, <<"_", "m">>, <<"1">>}}

CandidateConfigs == GrammarConfigs \cup StructureConfigs \cup ElsewhereConfigs

(* main: the configuration has been loaded and parsed *)
CheckInit ==
    /\ RadiatorStarted
    /\ ScrapeIdle
    /\ RegistryIdle
    /\ FunctionsIdle
    /\ config \in CandidateConfigs

(* main: crate::config::check(&config); the process panics on an error *)
MainCheck ==
    /\ check_result = "none"
    /\ check_result' = check(config)
    /\ UNCHANGED <<stats_entries, stats_response, stats_decoded, radiatorVars, scrapeVars, registryVars>>

CheckNext == MainCheck

SpecCheck == CheckInit /\ [][CheckNext]_vars

(* every metric of a configuration, the global ones first *)
RECURSIVE PerObjectMetricsOf(_)
PerObjectMetricsOf(per_object_metrics) ==
    IF per_object_metrics = <<>> THEN <<>>
    ELSE Head(per_object_metrics).metrics \o PerObjectMetricsOf(Tail(per_object_metrics))
MetricsOf(cfg) == cfg.metrics \o PerObjectMetricsOf(cfg.per_object_metrics)

(* no two positions of a sequence hold the same value *)
Distinct(seq) == \A j, k \in 1..Len(seq) : j # k => seq[j] # seq[k]
MetricNamesOf(cfg) == [k \in 1..Len(MetricsOf(cfg)) |-> MetricsOf(cfg)[k].metric]
KindsOf(cfg) == [k \in 1..Len(cfg.per_object_metrics) |-> cfg.per_object_metrics[k].kind]

(* the fields other than the metric names and the units are valid *)
CredentialsValid(cfg) ==
    /\ ~Contains(cfg.username, " ") /\ ~Contains(cfg.username, NUL)
    /\ ~Contains(cfg.password, " ") /\ ~Contains(cfg.password, NUL)
SamplesValid(metric) ==
    \A k \in 1..Len(metric.samples) :
        /\ ~Contains(metric.samples[k].statistic, COLON)
        /\ \A key \in DOMAIN metric.samples[k].labels : LabelNameOk(key)
OtherFieldsValid(cfg) ==
    /\ CredentialsValid(cfg)
    /\ Distinct(MetricNamesOf(cfg))
    /\ Distinct(KindsOf(cfg))
    /\ \A k \in 1..Len(MetricsOf(cfg)) : SamplesValid(MetricsOf(cfg)[k])

(* every metric name matches [A-Za-z_:][A-Za-z0-9_:]* and every unit that
   is present matches [A-Za-z0-9_:]+: what Metric::new and Metric::set_unit
   assert *)
GrammarHolds(cfg) ==
    \A k \in 1..Len(MetricsOf(cfg)) :
        /\ MetricNameOk(MetricsOf(cfg)[k].metric)
        /\ UnitOk(MetricsOf(cfg)[k].unit)

(* what check enforces of names and units: a name starts with a letter and
   goes on with letters, digits, underscores and colons; a unit, if present,
   is made of these and may be empty *)
LetterStartHolds(cfg) ==
    \A k \in 1..Len(MetricsOf(cfg)) :
        LET metric == MetricsOf(cfg)[k]
        IN /\ Len(metric.metric) > 0
           /\ IsAsciiAlphabetic(metric.metric[1])
           /\ AllMetricNameChars(Tail(metric.metric))
           /\ metric.unit.some => AllMetricNameChars(metric.unit.v)
CheckEnforcesLetterStart ==
    (check_result # "none" /\ OtherFieldsValid(config)) =>
        (check_result = "Ok" <=> LetterStartHolds(config))

(* C17: with all other fields valid, check accepts a configuration if and
   only if every metric name, global or per-object, matches
   [A-Za-z_:][A-Za-z0-9_:]* and every unit that is present matches
   [A-Za-z0-9_:]+; so a name starting with a letter, an underscore or a
   colon is accepted and an empty unit is rejected. *)
C17_CheckEnforcesGrammar ==
    (check_result # "none" /\ OtherFieldsValid(config)) =>
        (check_result = "Ok" <=> GrammarHolds(config))

(* C18: check rejects every configuration in which two metrics share a
   name, be they both global, both per-object (of one kind or of two) or one
   of each, and every configuration in which two per-object entries share a
   kind; a configuration whose names and kinds are pairwise distinct is not
   rejected for uniqueness. *)
NotUnique == {"metric is not unique", "kind is not unique"}
C18_DuplicatesRejected ==
    check_result # "none" =>
        /\ ~Distinct(MetricNamesOf(config)) => check_result # "Ok"
        /\ ~Distinct(KindsOf(config)) => check_result # "Ok"
        /\ (Distinct(MetricNamesOf(config)) /\ Distinct(KindsOf(config)))
              => check_result \notin NotUnique

(* a name shared by metrics of two kinds has been rejected *)
C18_Witness ==
    /\ check_result = "metric is not unique"
    /\ config.metrics = <<>>
    /\ Len(config.per_object_metrics) = 2
    /\ Distinct(KindsOf(config))
    /\ \A k \in 1..2 : Len(config.per_object_metrics[k].metrics) = 1
    /\ config.per_object_metrics[1].metrics[1].metric
          = config.per_object_metrics[2].metrics[1].metric


(***************************************************************************)
(* Part 5 (specification SpecDecode): decode_stats on its own, on the      *)
(* frames a backend can send: an echoed command, a newline and entries     *)
(* joined by U+0001, as well as frames without a newline and frames whose  *)
(* payload is not UTF-8.                                                   *)
(***************************************************************************)
MaxEntries == 4

(* the entries of a payload: key:value, with and without a colon, with
   integer, decimal and unparsable values, an empty key, an empty value and
   a second colon *)
StatEntries ==
    {<<"k1", ":", "1", "0">>, <<"k1", ":", "1", "1">>, <<"k2", ":", "3", ".", "5">>,
     <<"bad">>, <<"k1", ":", "x">>, <<"k2", ":", "-", "7">>, <<"k1", ":", "1", ":", "2">>,
     <<"k2", ":">>, <<":", "5">>}

(* the payload: the entries separated by U+0001 *)
RECURSIVE JoinEntries(_)
JoinEntries(entries) ==
    IF entries = <<>> THEN <<>>
    ELSE IF Len(entries) = 1 THEN entries[1]
    ELSE entries[1] \o <<SOH>> \o JoinEntries(Tail(entries))

(* the frames carrying a payload: with the echoed command and a newline,
   without them, and with a byte that is not UTF-8 after the payload *)
FramesOf(entries) ==
    {<<"STATS", " ", ".", LF>> \o JoinEntries(entries),
     JoinEntries(entries),
     <<"STATS", " ", ".", LF>> \o JoinEntries(entries) \o <<SOH, XFF>>}

DecodeInit ==
    /\ RadiatorStarted
    /\ ScrapeIdle
    /\ RegistryIdle
    /\ config = ConfigNoMetrics
    /\ check_result = "none"
    /\ stats_decoded = NotDecoded
    /\ stats_entries \in SeqsUpTo(StatEntries, MaxEntries)
    /\ stats_response \in FramesOf(stats_entries)

(* decode_stats(&response) *)
DecodeStats ==
    /\ ~stats_decoded.ran
    /\ stats_decoded' = [ran |-> TRUE, some |-> decode_stats(stats_response).some,
                         stats |-> decode_stats(stats_response).stats]
    /\ UNCHANGED <<check_result, stats_entries, stats_response, radiatorVars, scrapeVars,
                   registryVars>>

DecodeNext == DecodeStats

SpecDecode == DecodeInit /\ [][DecodeNext]_vars

(* an entry that counts: it has a colon and what follows the first colon
   parses as an integer or as a float *)
EntryParses(entry) ==
    /\ HasDelimiter(entry, COLON)
    /\ ParsesAsInteger(After(entry, COLON)) \/ ParsesAsFloat(After(entry, COLON))
EntriesFor(entries, key) ==
    {k \in 1..Len(entries) : EntryParses(entries[k]) /\ Before(entries[k], COLON) = key}
LastEntryFor(entries, key) ==
    entries[CHOOSE k \in EntriesFor(entries, key) : \A j \in EntriesFor(entries, key) : j <= k]

(* the value of an entry: an integer if it parses as one, a float otherwise *)
NumberOf(entry) ==
    IF ParsesAsInteger(After(entry, COLON)) THEN IntegerNumber(After(entry, COLON))
    ELSE FloatNumber(After(entry, COLON))

(* the example: k1:10, k2:3.5, bad, k1:11 *)
ExampleEntries ==
    <<(<<"k1", ":", "1", "0">>), (<<"k2", ":", "3", ".", "5">>), (<<"bad">>),
      (<<"k1", ":", "1", "1">>)>>
ExampleStatistics ==
    Insert(Insert(EmptyMap, <<"k1">>, [type |-> "Integer", int |-> 11, text |-> <<>>]),
           <<"k2">>, [type |-> "Float", int |-> 0, text |-> <<"3", ".", "5">>])

(* the frame has a newline and its payload is valid UTF-8 *)
WellFormed(response) ==
    /\ \E k \in 1..Len(response) : response[k] = LF
    /\ \A k \in 1..Len(response) : response[k] # XFF

(* C19: decode_stats on a frame with a newline and a valid UTF-8 payload
   always succeeds, and the map it returns holds for each key the value of
   the last entry of that key whose value parses, as an integer if it parses
   as one and as a float otherwise, key and value split at the first colon;
   entries without a colon or with an unparsable value are dropped. The
   entries k1:10, k2:3.5, bad, k1:11 give {k1: 11 (int), k2: 3.5 (float)}. *)
C19_DecodeKeepsLastParsable ==
    (stats_decoded.ran /\ WellFormed(stats_response)) =>
        /\ stats_decoded.some
        /\ DOMAIN stats_decoded.stats =
              {Before(stats_entries[k], COLON) :
                  k \in {j \in 1..Len(stats_entries) : EntryParses(stats_entries[j])}}
        /\ \A key \in DOMAIN stats_decoded.stats :
              stats_decoded.stats[key] = NumberOf(LastEntryFor(stats_entries, key))
        /\ stats_entries = ExampleEntries => stats_decoded.stats = ExampleStatistics

(* the example has been decoded *)
C19_Witness ==
    /\ stats_decoded.ran
    /\ WellFormed(stats_response)
    /\ stats_entries = ExampleEntries
    /\ stats_decoded.stats = ExampleStatistics


(***************************************************************************)
(* Further properties of a scrape (specification SpecScrape)               *)
(***************************************************************************)

(* the per-object STATS calls made for a kind *)
StatsCallsOf(kind) == {k \in 1..Len(stats_log) : stats_log[k].kind = kind}

(* the positions in the history of communicate calls of the commands
   DESCRIBE kind.i and STATS kind.i *)
DescribePositions(kind) ==
    {k \in 1..Len(answers) : \E i \in 0..MaxIndex : answers[k].command = DescribeCommand(kind, i)}
StatsPositions(kind, i) ==
    {k \in 1..Len(answers) : answers[k].command = StatsCommand(kind, i)}

(* C23: within a scrape STATS kind.i is issued once for each index i of the
   kind's index-to-identifier map and for no other index, and only after
   the enumeration of the kind has ended with the NOSUCHOBJECT marker; the
   result of the kind maps each such index to the identifier found at that
   index and the statistics decoded from the response to its STATS. *)
C23_StatsOncePerIdentifiedIndex ==
    /\ \A k \in 1..Len(stats_log) :
          LET call == stats_log[k]
          IN /\ call.after_marker
             /\ call.index \in call.identified
             /\ call.found.some
             /\ Cardinality(StatsPositions(call.kind, call.index)) = 1
             /\ \A j \in DescribePositions(call.kind) :
                   \A m \in StatsPositions(call.kind, call.index) : j < m
             /\ \A j \in 1..Len(stats_log) :
                   (stats_log[j].kind = call.kind /\ stats_log[j].index = call.index) => j = k
    /\ \A i \in 0..MaxIndex, k \in 1..Len(config.per_object_metrics) :
          StatsPositions(config.per_object_metrics[k].kind, i) # {} =>
             \E j \in 1..Len(stats_log) :
                /\ stats_log[j].kind = config.per_object_metrics[k].kind
                /\ stats_log[j].index = i
    /\ spc = "stats" =>
          /\ pending \subseteq DOMAIN index_to_identifier
          /\ {stats_log[k].index : k \in StatsCallsOf(config.per_object_metrics[kindIx].kind)}
                = (DOMAIN index_to_identifier) \ pending
    /\ \A kind \in DOMAIN object_type_to_statistics :
          /\ DOMAIN object_type_to_statistics[kind]
                = {stats_log[k].index : k \in StatsCallsOf(kind)}
          /\ \A k \in StatsCallsOf(kind) :
                /\ stats_log[k].identified = DOMAIN object_type_to_statistics[kind]
                /\ stats_log[k].decoded.some
                /\ object_type_to_statistics[kind][stats_log[k].index]
                      = [identifier |-> stats_log[k].found.id,
                         stats |-> stats_log[k].decoded.stats]

(* the statistics of two objects of a kind have been fetched, those of
   index 1 first, and the kind is complete *)
C23_Witness ==
    \E kind \in DOMAIN object_type_to_statistics :
        /\ DOMAIN object_type_to_statistics[kind] = {0, 1}
        /\ object_type_to_statistics[kind][0].identifier
              # object_type_to_statistics[kind][1].identifier
        /\ object_type_to_statistics[kind][1].stats # EmptyMap
        /\ \E k \in StatsCallsOf(kind) : stats_log[k].index = 1 /\ k = 1


(* the elements of a sequence in the order of their first appearance *)
RECURSIVE FirstAppearances(_)
FirstAppearances(seq) ==
    IF seq = <<>> THEN <<>>
    ELSE LET front == FirstAppearances(Pop(seq))
         IN IF \E k \in 1..Len(front) : front[k] = Last(seq) THEN front
            ELSE Append(front, Last(seq))

(* the label names of a metric in the order of the add_label calls: those
   of its samples, then the identifier label of a per-object metric *)
RegistrationOrder(metric_config, extra) ==
    FirstAppearances(SampleLabelNames(metric_config.samples) \o extra)

(* the label values of a sample in the order in which the label names were
   registered *)
ObjectKeysAsRegistered(pom, metric_config) ==
    LET objects == object_type_to_statistics[pom.kind]
    IN {LabelValues(RegistrationOrder(metric_config, <<pom.identifier_label>>),
                    Insert(metric_config.samples[p[2]].labels, pom.identifier_label,
                           objects[p[1]].identifier)) :
           p \in {p \in (DOMAIN objects) \X (1..Len(metric_config.samples)) :
                     metric_config.samples[p[2]].statistic \in DOMAIN objects[p[1]].stats}}
GlobalKeysAsRegistered(metric_config) ==
    {LabelValues(RegistrationOrder(metric_config, <<>>), metric_config.samples[j].labels) :
        j \in {j \in 1..Len(metric_config.samples) :
                  metric_config.samples[j].statistic \in DOMAIN statistics}}

(* C25: the label-set order of a metric is the order of first appearance:
   the label names are registered in the order in which they first appear
   across the samples of the metric, for a per-object metric the identifier
   label after them, and the label-value tuple of every sample of the
   document lists the values in that order. *)
C25_LabelsInRegistrationOrder ==
    (spc = "done" /\ reply.document.some) =>
        /\ \A g \in 1..Len(config.metrics) :
              DOMAIN reply.document.metrics[config.metrics[g].metric].samples
                 = GlobalKeysAsRegistered(config.metrics[g])
        /\ \A k \in 1..Len(config.per_object_metrics) :
              \A m \in 1..Len(config.per_object_metrics[k].metrics) :
                 DOMAIN reply.document.metrics[config.per_object_metrics[k].metrics[m].metric].samples
                    = ObjectKeysAsRegistered(config.per_object_metrics[k],
                                             config.per_object_metrics[k].metrics[m])

(* ------------------------------------------------------------------ *)
(* A scrape against a backend that holds finitely many objects           *)
(* (specification SpecEnumerate)                                         *)
(* ------------------------------------------------------------------ *)

(* the backend holds at most MaxObjects objects of a kind *)
MaxObjects == MaxIndex - 1

(* the end marker, framed like every response (echoed command, newline,
   payload) or bare; the description of an object, with or without an
   identifier *)
FramedMarker == <<"DESCRIBE", LF, "NOSUCHOBJECT">>
MarkerFrames == {NOSUCHOBJECT, FramedMarker}
ObjectFrames ==
    { <<"DESCRIBE", LF, "Name", ":", "string", ":", "x", SOH,
        "Identifier", ":", "string", ":", "a">>,
      <<"DESCRIBE", LF, "Identifier", ":", "string", ":", "b">>,
      <<"DESCRIBE", LF, "Identifier", ":", "integer", ":", "1">> }

(* what the backend answers to the DESCRIBE of the current index: an object
   or the marker below MaxObjects, the marker from there on, and the marker
   again for every index after the first one it has answered so *)
BackendDescribes ==
    IF described # <<>> /\ described[Len(described)].payload_is_marker THEN {FramedMarker}
    ELSE IF index >= MaxObjects THEN MarkerFrames
    ELSE MarkerFrames \cup ObjectFrames

(* communicate(DESCRIBE kind.i) returns what the backend answers *)
EnumerateDescribe ==
    \E frame \in BackendDescribes : ScrapeDescribe([kind |-> "Ok", frame |-> frame])

EnumerateNext ==
    \/ ScrapeRequest("GET")
    \/ \E r \in Results : ScrapeGlobalStats(r)
    \/ EnumerateDescribe
    \/ \E ix \in Indices, r \in Results : ScrapeObjectStats(ix, r)

(* every communicate call of the enumeration returns and the loop goes on.
   The backend holds at most MaxObjects objects, so a loop that ends with
   the marker issues DESCRIBE for the indices up to MaxObjects only; one
   that reaches MaxIndex is still enumerating past the backend's objects. *)
DescribeReady ==
    /\ spc = "describe"
    /\ \E frame \in BackendDescribes : index < MaxIndex \/ frame = NOSUCHOBJECT

(* the communicate call of the enumeration returns: the step of
   EnumerateDescribe as the list of the calls answered shows it *)
DescribeReturns ==
    /\ DescribeReady
    /\ \E frame \in BackendDescribes :
          /\ index < MaxIndex \/ frame = NOSUCHOBJECT
          /\ answers' = Answered(DescribeCommand(config.per_object_metrics[kindIx].kind, index),
                                 [kind |-> "Ok", frame |-> frame])

SpecEnumerate == ScrapeInit /\ [][EnumerateNext]_vars /\ WF_answers(DescribeReturns)

(* C29: the enumeration of a kind terminates: against a backend that holds
   finitely many objects of the kind and answers the DESCRIBE of the first
   index without an object with the NOSUCHOBJECT end marker, the loop
   issues finitely many DESCRIBE commands and the scrape goes on to the
   STATS phase, also when objects lack an identifier. *)
C29_EnumerationTerminates ==
    \A k \in 1..2 :
        (spc = "describe" /\ kindIx = k) ~> ~(spc = "describe" /\ kindIx = k)

(* what holds: the enumeration ends with the first response that is the
   marker as a whole frame *)
EnumerationEndsAtFrameMarker ==
    spc = "describe" => \A k \in 1..Len(described) : ~described[k].frame_is_marker

(***************************************************************************)
(* Further properties of the registry (specification SpecRegistry)         *)
(***************************************************************************)

(* the values of a label map, in the ascending order of its label names *)
TupleOf(labels) ==
    [k \in 1..Cardinality(DOMAIN labels) |-> labels[Ascending(DOMAIN labels)[k]]]

(* C24: the samples of a metric are keyed by the tuple of the label values
   in label-name order: after any sequence of add_sample calls the metric
   holds one sample for each tuple added and no other, with the value of the
   last add_sample of that tuple; adding the same label set again overwrites
   and does not duplicate. *)
C24_LastSamplePerTuple ==
    \A name \in DOMAIN registry.metrics :
        LET samples == registry.metrics[name].samples
            added == IF name \in DOMAIN last_added THEN last_added[name] ELSE EmptyMap
        IN /\ DOMAIN samples = {TupleOf(labels) : labels \in DOMAIN added}
           /\ Cardinality(DOMAIN samples) = Cardinality(DOMAIN added)
           /\ \A labels \in DOMAIN added : samples[TupleOf(labels)] = added[labels]

(* a sample of two labels has been overwritten with another value, while
   the metric holds a second sample *)
C24_Witness ==
    /\ ~registry.fault
    /\ last_call.op = "add_sample"
    /\ Cardinality(DOMAIN last_call.labels) = 2
    /\ TupleOf(last_call.labels) \in DOMAIN last_call.samples_before
    /\ last_call.samples_before[TupleOf(last_call.labels)]
          # registry.metrics[last_call.name].samples[TupleOf(last_call.labels)]
    /\ Cardinality(DOMAIN registry.metrics[last_call.name].samples) = 2
====
